---- MODULE Spec2Model ----
(***************************************************************************)
(* Conversation state machine of the document chatbot:                     *)
(* chatController.sendMessage -> FastLangChainService.handleConversation   *)
(* -> handleAppointmentFlow / handleDocumentQuery, with the Conversation   *)
(* and Appointment collections as durable storage.                         *)
(*                                                                         *)
(* Text is modelled as a sequence of one-character strings, so that        *)
(* toLowerCase, trim, includes and the regular expressions of the source   *)
(* are computed on the characters of each message.  A 'yyyy-MM-dd' date    *)
(* string is the tuple <<year, month, day>>; the server's local time zone  *)
(* is taken to be UTC.  An unset (undefined) field is the empty sequence.  *)
(* One session id is modelled; `appointments` holds the Appointment        *)
(* documents written through the chat channel.                             *)
(***************************************************************************)
EXTENDS Integers, Sequences, FiniteSets, TLC

\* ------------------------------------------------------------------ bounds
\* number of HTTP requests accepted in one explored behaviour
MaxTurns == 8

\* calls of processUploadedFile, deleteDocument and addDocumentFast explored
MaxCalls == 4

\* documents in the store searchDocuments reads
MaxDocs == 2

\* ------------------------------------------------------------- characters
Undefined == <<>>

LowerOf ==
  [c \in {"A","B","C","D","E","F","G","H","I","J","K","L","M",
          "N","O","P","Q","R","S","T","U","V","W","X","Y","Z"} |->
     CASE c = "A" -> "a" [] c = "B" -> "b" [] c = "C" -> "c" [] c = "D" -> "d"
       [] c = "E" -> "e" [] c = "F" -> "f" [] c = "G" -> "g" [] c = "H" -> "h"
       [] c = "I" -> "i" [] c = "J" -> "j" [] c = "K" -> "k" [] c = "L" -> "l"
       [] c = "M" -> "m" [] c = "N" -> "n" [] c = "O" -> "o" [] c = "P" -> "p"
       [] c = "Q" -> "q" [] c = "R" -> "r" [] c = "S" -> "s" [] c = "T" -> "t"
       [] c = "U" -> "u" [] c = "V" -> "v" [] c = "W" -> "w" [] c = "X" -> "x"
       [] c = "Y" -> "y" [] c = "Z" -> "z"]

DigitChars == <<"0","1","2","3","4","5","6","7","8","9">>

IsDigit(c) == \E i \in 1..10 : DigitChars[i] = c

\* \s of the regular expressions
IsSpace(c) == c \in {" ", "\t", "\n", "\r"}

\* \w of the regular expressions
IsWord(c) ==
  \/ c \in {LowerOf[u] : u \in DOMAIN LowerOf} \/ c \in DOMAIN LowerOf
  \/ IsDigit(c) \/ c = "_"

AllDigits(s) == \A i \in 1..Len(s) : IsDigit(s[i])

\* String.prototype.toLowerCase
toLowerCase(s) ==
  [i \in 1..Len(s) |-> IF s[i] \in DOMAIN LowerOf THEN LowerOf[s[i]] ELSE s[i]]

\* String.prototype.trim
trim(s) ==
  LET keep == {i \in 1..Len(s) : ~IsSpace(s[i])}
  IN  IF keep = {} THEN <<>>
      ELSE SubSeq(s, CHOOSE i \in keep : \A j \in keep : i <= j,
                     CHOOSE i \in keep : \A j \in keep : i >= j)

\* String.prototype.includes
includes(s, sub) ==
  \E i \in 1..(Len(s) - Len(sub) + 1) : SubSeq(s, i, i + Len(sub) - 1) = sub

startsWith(s, pre) == Len(s) >= Len(pre) /\ SubSeq(s, 1, Len(pre)) = pre

endsWith(s, suf) ==
  Len(s) >= Len(suf) /\ SubSeq(s, Len(s) - Len(suf) + 1, Len(s)) = suf

\* parseInt of a digit string
RECURSIVE parseInt(_)
parseInt(s) ==
  IF Len(s) = 0 THEN 0
  ELSE 10 * parseInt(SubSeq(s, 1, Len(s) - 1))
         + (CHOOSE i \in 1..10 : DigitChars[i] = s[Len(s)]) - 1

\* Number.prototype.toString for 0..99
toString(n) ==
  IF n < 10 THEN <<DigitChars[n + 1]>>
  ELSE <<DigitChars[(n \div 10) + 1], DigitChars[(n % 10) + 1]>>

\* toString().padStart(2, '0')
padStart2(n) == IF n < 10 THEN <<"0">> \o toString(n) ELSE toString(n)

\* ------------------------------------------------- string literals of the source
KW ==
  [ cancel                 |-> <<"c", "a", "n", "c", "e", "l">>,
    stop                   |-> <<"s", "t", "o", "p">>,
    quit                   |-> <<"q", "u", "i", "t">>,
    exit                   |-> <<"e", "x", "i", "t">>,
    start_again            |-> <<"s", "t", "a", "r", "t", " ", "a", "g", "a", "i", "n">>,
    restart                |-> <<"r", "e", "s", "t", "a", "r", "t">>,
    start_over             |-> <<"s", "t", "a", "r", "t", " ", "o", "v", "e", "r">>,
    wrong                  |-> <<"w", "r", "o", "n", "g">>,
    mistake                |-> <<"m", "i", "s", "t", "a", "k", "e">>,
    call_me                |-> <<"c", "a", "l", "l", " ", "m", "e">>,
    book_appointment       |-> <<"b", "o", "o", "k", " ", "a", "p", "p", "o", "i", "n", "t", "m", "e", "n", "t">>,
    schedule               |-> <<"s", "c", "h", "e", "d", "u", "l", "e">>,
    meeting                |-> <<"m", "e", "e", "t", "i", "n", "g">>,
    call_back              |-> <<"c", "a", "l", "l", " ", "b", "a", "c", "k">>,
    contact_me             |-> <<"c", "o", "n", "t", "a", "c", "t", " ", "m", "e">>,
    am                     |-> <<"a", "m">>,
    pm                     |-> <<"p", "m">>,
    today                  |-> <<"t", "o", "d", "a", "y">>,
    tomorrow               |-> <<"t", "o", "m", "o", "r", "r", "o", "w">>,
    day_after_tomorrow     |-> <<"d", "a", "y", " ", "a", "f", "t", "e", "r", " ", "t", "o", "m", "o", "r", "r", "o", "w">>,
    the_day_after_tomorrow |-> <<"t", "h", "e", " ", "d", "a", "y", " ", "a", "f", "t", "e", "r", " ", "t", "o", "m", "o", "r", "r", "o", "w">>,
    overmorrow             |-> <<"o", "v", "e", "r", "m", "o", "r", "r", "o", "w">>,
    next_week              |-> <<"n", "e", "x", "t", " ", "w", "e", "e", "k">>,
    next_                  |-> <<"n", "e", "x", "t", " ">>,
    this_                  |-> <<"t", "h", "i", "s", " ">>,
    in_                    |-> <<"i", "n", " ">>,
    _day                   |-> <<" ", "d", "a", "y">>,
    _days                  |-> <<" ", "d", "a", "y", "s">>,
    _from_now              |-> <<" ", "f", "r", "o", "m", " ", "n", "o", "w">>,
    sunday                 |-> <<"s", "u", "n", "d", "a", "y">>,
    monday                 |-> <<"m", "o", "n", "d", "a", "y">>,
    tuesday                |-> <<"t", "u", "e", "s", "d", "a", "y">>,
    wednesday              |-> <<"w", "e", "d", "n", "e", "s", "d", "a", "y">>,
    thursday               |-> <<"t", "h", "u", "r", "s", "d", "a", "y">>,
    friday                 |-> <<"f", "r", "i", "d", "a", "y">>,
    saturday               |-> <<"s", "a", "t", "u", "r", "d", "a", "y">>,
    General_consultation   |-> <<"G", "e", "n", "e", "r", "a", "l", " ", "c", "o", "n", "s", "u", "l", "t", "a", "t", "i", "o", "n">> ]

\* --------------------------------------------------------------- keywords
cancelKeywords ==
  { KW.cancel,
    KW.stop,
    KW.quit,
    KW.exit,
    KW.start_again,
    KW.restart,
    KW.start_over,
    KW.wrong,
    KW.mistake }

appointmentKeywords ==
  { KW.call_me,
    KW.book_appointment,
    KW.schedule,
    KW.meeting,
    KW.call_back,
    KW.contact_me }

wantsToCancel(message) ==
  \E keyword \in cancelKeywords : includes(toLowerCase(message), keyword)

wantsAppointment(message) ==
  \E keyword \in appointmentKeywords : includes(toLowerCase(message), keyword)

\* ------------------------------------------------------------- validators
\* /^[^\s@]+@[^\s@]+\.[^\s@]+$/
emailRegex(s) ==
  \E a \in 1..Len(s) : \E d \in 1..Len(s) :
     /\ s[a] = "@" /\ s[d] = "."
     /\ a > 1 /\ d > a + 1 /\ d < Len(s)
     /\ \A i \in 1..Len(s) : i # a => (~IsSpace(s[i]) /\ s[i] # "@")

\* message.replace(/[\s\-\(\)]/g, '')
cleanPhone(message) ==
  SelectSeq(message, LAMBDA c : ~(IsSpace(c) \/ c \in {"-", "(", ")"}))

\* /^[\+]?[1-9][\d]{0,15}$/
phoneRegex(s) ==
  LET digits == IF Len(s) > 0 /\ s[1] = "+" THEN Tail(s) ELSE s
  IN  /\ Len(digits) >= 1 /\ Len(digits) <= 16
      /\ AllDigits(digits)
      /\ digits[1] # "0"

\* \w+([.-]?\w+)*
WordRun(s) ==
  /\ Len(s) >= 1
  /\ IsWord(s[1]) /\ IsWord(s[Len(s)])
  /\ \A i \in 1..Len(s) : IsWord(s[i]) \/ s[i] \in {".", "-"}
  /\ \A i \in 1..(Len(s) - 1) : IsWord(s[i]) \/ IsWord(s[i + 1])

\* (\.\w{2,3})+
RECURSIVE TldGroups(_)
TldGroups(s) ==
  /\ Len(s) >= 3
  /\ s[1] = "."
  /\ \E n \in {2, 3} :
       /\ Len(s) >= n + 1
       /\ \A i \in 2..(n + 1) : IsWord(s[i])
       /\ (Len(s) = n + 1 \/ TldGroups(SubSeq(s, n + 2, Len(s))))

\* Appointment schema, email: /^\w+([.-]?\w+)*@\w+([.-]?\w+)*(\.\w{2,3})+$/
schemaEmailMatch(s) ==
  \E a \in 1..Len(s) :
     /\ s[a] = "@"
     /\ WordRun(SubSeq(s, 1, a - 1))
     /\ \E k \in (a + 1)..(Len(s) - 1) :
          /\ WordRun(SubSeq(s, a + 1, k))
          /\ TldGroups(SubSeq(s, k + 1, Len(s)))

\* ------------------------------------------------------------ time parsing
\* ([1-9]|1[0-2])
Hour12(s) ==
  \/ Len(s) = 1 /\ IsDigit(s[1]) /\ s[1] # "0"
  \/ Len(s) = 2 /\ s[1] = "1" /\ s[2] \in {"0", "1", "2"}

\* ([0-1]?[0-9]|2[0-3])
Hour24(s) ==
  \/ Len(s) = 1 /\ IsDigit(s[1])
  \/ Len(s) = 2 /\ s[1] \in {"0", "1"} /\ IsDigit(s[2])
  \/ Len(s) = 2 /\ s[1] = "2" /\ s[2] \in {"0", "1", "2", "3"}

\* [0-5][0-9]
Minute(s) ==
  Len(s) = 2 /\ s[1] \in {"0", "1", "2", "3", "4", "5"} /\ IsDigit(s[2])

\* the part of s before a trailing \s?(AM|PM), as a set (empty: no match)
BeforePeriod(s) ==
  IF Len(s) >= 2 /\ toLowerCase(SubSeq(s, Len(s) - 1, Len(s))) \in {KW.am, KW.pm}
  THEN LET head == SubSeq(s, 1, Len(s) - 2)
       IN  {head} \cup (IF Len(head) >= 1 /\ IsSpace(head[Len(head)])
                        THEN {SubSeq(head, 1, Len(head) - 1)} ELSE {})
  ELSE {}

periodOf(s) == toLowerCase(SubSeq(s, Len(s) - 1, Len(s)))

\* /^([1-9]|1[0-2])\s?(AM|PM)$/i
simpleTimeMatch(s) == {h \in BeforePeriod(s) : Hour12(h)}

\* /^([1-9]|1[0-2]):([0-5][0-9])\s?(AM|PM)$/i
timeMatch(s) ==
  {hm \in BeforePeriod(s) :
     \E c \in 1..Len(hm) :
        /\ hm[c] = ":"
        /\ Hour12(SubSeq(hm, 1, c - 1))
        /\ Minute(SubSeq(hm, c + 1, Len(hm)))}

\* /^([0-1]?[0-9]|2[0-3]):[0-5][0-9]$/
time24Match(s) ==
  \E c \in 1..Len(s) :
     /\ s[c] = ":"
     /\ Hour24(SubSeq(s, 1, c - 1))
     /\ Minute(SubSeq(s, c + 1, Len(s)))

\* the 12-hour to 24-hour conversion of both AM/PM branches
convert12(hour, period, minute) ==
  IF period = KW.pm /\ hour # 12 THEN toString(hour + 12) \o <<":">> \o minute
  ELSE IF period = KW.am /\ hour = 12 THEN <<"0", "0", ":">> \o minute
  ELSE IF period = KW.am THEN padStart2(hour) \o <<":">> \o minute
  ELSE <<"1", "2", ":">> \o minute

\* case 'appointment_time': validTime and finalTimeString
parseTime(message) ==
  LET timeString == trim(message)
  IN  IF simpleTimeMatch(timeString) # {}
      THEN LET h == CHOOSE x \in simpleTimeMatch(timeString) : TRUE
           IN  [validTime |-> TRUE,
                finalTimeString |->
                  convert12(parseInt(h), periodOf(timeString), <<"0", "0">>)]
      ELSE IF timeMatch(timeString) # {}
      THEN LET hm == CHOOSE x \in timeMatch(timeString) : TRUE
               c  == CHOOSE i \in 1..Len(hm) : hm[i] = ":"
           IN  [validTime |-> TRUE,
                finalTimeString |->
                  convert12(parseInt(SubSeq(hm, 1, c - 1)), periodOf(timeString),
                            SubSeq(hm, c + 1, Len(hm)))]
      ELSE IF time24Match(timeString)
      THEN [validTime |-> TRUE, finalTimeString |-> timeString]
      ELSE [validTime |-> FALSE, finalTimeString |-> <<>>]

\* ------------------------------------------------------------ date parsing
getDaysInMonth(y, m) ==
  IF m = 2
  THEN (IF (y % 4 = 0 /\ y % 100 # 0) \/ y % 400 = 0 THEN 29 ELSE 28)
  ELSE IF m \in {4, 6, 9, 11} THEN 30 ELSE 31

\* date-fns addDays, for n >= 0
RECURSIVE addDays(_, _)
addDays(date, n) ==
  IF n = 0 THEN date
  ELSE LET y == date[1]  m == date[2]  d == date[3]
       IN  IF d < getDaysInMonth(y, m) THEN addDays(<<y, m, d + 1>>, n - 1)
           ELSE IF m < 12 THEN addDays(<<y, m + 1, 1>>, n - 1)
           ELSE addDays(<<y + 1, 1, 1>>, n - 1)

\* Date.prototype.getDay: 0 is Sunday
getDay(date) ==
  LET t == <<0, 3, 2, 5, 0, 3, 5, 1, 4, 6, 2, 4>>
      y == IF date[2] < 3 THEN date[1] - 1 ELSE date[1]
  IN  (y + (y \div 4) - (y \div 100) + (y \div 400) + t[date[2]] + date[3]) % 7

weekdays ==
  <<KW.sunday, KW.monday, KW.tuesday, KW.wednesday, KW.thursday, KW.friday,
    KW.saturday>>

\* /^in (\d+) days?$/ : the set of captured digit strings
inDaysMatch(s) ==
  {n \in {SubSeq(s, 4, Len(s) - Len(suf)) : suf \in {KW._day, KW._days}} :
     /\ startsWith(s, KW.in_)
     /\ \E suf \in {KW._day, KW._days} :
          endsWith(s, suf) /\ n = SubSeq(s, 4, Len(s) - Len(suf))
     /\ Len(n) >= 1 /\ AllDigits(n)}

\* /^(\d+) days? from now$/ : the set of captured digit strings
daysFromNowMatch(s) ==
  {n \in {SubSeq(s, 1, Len(s) - Len(suf)) :
            suf \in {KW._day \o KW._from_now, KW._days \o KW._from_now}} :
     /\ \E suf \in {KW._day \o KW._from_now, KW._days \o KW._from_now} :
          endsWith(s, suf) /\ n = SubSeq(s, 1, Len(s) - Len(suf))
     /\ Len(n) >= 1 /\ AllDigits(n)}

\* the three numeric fields of s around two separators sep, or <<>>
SplitDate(s, sep) ==
  LET at == {i \in 1..Len(s) : s[i] = sep}
  IN  IF Cardinality(at) # 2 THEN <<>>
      ELSE LET i == CHOOSE x \in at : \A z \in at : x <= z
               j == CHOOSE x \in at : \A z \in at : x >= z
               a == SubSeq(s, 1, i - 1)
               b == SubSeq(s, i + 1, j - 1)
               c == SubSeq(s, j + 1, Len(s))
           IN  IF \A f \in {a, b, c} : Len(f) >= 1 /\ AllDigits(f)
               THEN <<a, b, c>> ELSE <<>>

\* the order of the fields in each pattern: y, m, d give the field's position
dateFormats ==
  << [sep |-> "-", y |-> 1, m |-> 2, d |-> 3],    \* yyyy-MM-dd
     [sep |-> "/", y |-> 3, m |-> 1, d |-> 2],    \* MM/dd/yyyy
     [sep |-> "/", y |-> 3, m |-> 2, d |-> 1],    \* dd/MM/yyyy
     [sep |-> "-", y |-> 3, m |-> 1, d |-> 2],    \* MM-dd-yyyy
     [sep |-> "-", y |-> 3, m |-> 2, d |-> 1],    \* dd-MM-yyyy
     [sep |-> "/", y |-> 3, m |-> 1, d |-> 2],    \* M/d/yyyy
     [sep |-> "/", y |-> 3, m |-> 2, d |-> 1] >>  \* d/M/yyyy

\* date-fns parse(dateString, format, new Date()) with isValid
parse(dateString, format) ==
  LET f == SplitDate(dateString, format.sep)
  IN  IF f = <<>> THEN [ok |-> FALSE, date |-> <<>>]
      ELSE LET y == parseInt(f[format.y])
               m == parseInt(f[format.m])
               d == parseInt(f[format.d])
           IN  IF /\ Len(f[format.y]) <= 4
                  /\ Len(f[format.m]) <= 2 /\ Len(f[format.d]) <= 2
                  /\ m >= 1 /\ m <= 12
                  /\ d >= 1 /\ d <= getDaysInMonth(y, m)
               THEN [ok |-> TRUE, date |-> <<y, m, d>>]
               ELSE [ok |-> FALSE, date |-> <<>>]

\* parseNaturalDate with today counted as an occurrence of its own weekday
parseNaturalDate_todayCounts(dateString, today) ==
  LET lowerDateString == trim(toLowerCase(dateString))
      todayWeekday == getDay(today)
      Found(date) == [ok |-> TRUE, date |-> date]
      \* daysToAdd of the first weekday branch that matches, or -1
      weekdayDays ==
        LET hits == {i \in 0..6 :
                       \/ lowerDateString = weekdays[i + 1]
                       \/ lowerDateString = KW.next_ \o weekdays[i + 1]
                       \/ lowerDateString = KW.this_ \o weekdays[i + 1]}
        IN  IF hits = {} THEN -1
            ELSE LET i == CHOOSE x \in hits : TRUE
                     diff == i - todayWeekday
                 IN  IF lowerDateString = KW.this_ \o weekdays[i + 1]
                     THEN (IF diff < 0 THEN diff + 7 ELSE diff)
                     ELSE (IF diff < 0 THEN diff + 7 ELSE diff)
      valid == {k \in 1..Len(dateFormats) : parse(dateString, dateFormats[k]).ok}
  IN  IF lowerDateString = KW.today THEN Found(today)
      ELSE IF lowerDateString = KW.tomorrow THEN Found(addDays(today, 1))
      ELSE IF lowerDateString \in
                {KW.day_after_tomorrow, KW.the_day_after_tomorrow, KW.overmorrow}
      THEN Found(addDays(today, 2))
      ELSE IF inDaysMatch(lowerDateString) # {}
      THEN Found(addDays(today,
                 parseInt(CHOOSE n \in inDaysMatch(lowerDateString) : TRUE)))
      ELSE IF daysFromNowMatch(lowerDateString) # {}
      THEN Found(addDays(today,
                 parseInt(CHOOSE n \in daysFromNowMatch(lowerDateString) : TRUE)))
      ELSE IF weekdayDays >= 0 THEN Found(addDays(today, weekdayDays))
      ELSE IF lowerDateString = KW.next_week THEN Found(addDays(today, 7))
      ELSE IF valid # {}
      THEN parse(dateString,
                 dateFormats[CHOOSE k \in valid : \A j \in valid : k <= j])
      ELSE [ok |-> FALSE, date |-> <<>>]

\* parseNaturalDate(dateString) evaluated on calendar day `today`;
\* ok = FALSE is the null result
parseNaturalDate(dateString, today) ==
  LET lowerDateString == trim(toLowerCase(dateString))
      todayWeekday == getDay(today)
      Found(date) == [ok |-> TRUE, date |-> date]
      \* daysToAdd of the first weekday branch that matches, or -1
      weekdayDays ==
        LET hits == {i \in 0..6 :
                       \/ lowerDateString = weekdays[i + 1]
                       \/ lowerDateString = KW.next_ \o weekdays[i + 1]
                       \/ lowerDateString = KW.this_ \o weekdays[i + 1]}
        IN  IF hits = {} THEN -1
            ELSE LET i == CHOOSE x \in hits : TRUE
                     diff == i - todayWeekday
                 IN  IF lowerDateString = KW.this_ \o weekdays[i + 1]
                     THEN (IF diff < 0 THEN diff + 7 ELSE diff)
                     ELSE (IF diff <= 0 THEN diff + 7 ELSE diff)
      valid == {k \in 1..Len(dateFormats) : parse(dateString, dateFormats[k]).ok}
  IN  IF lowerDateString = KW.today THEN Found(today)
      ELSE IF lowerDateString = KW.tomorrow THEN Found(addDays(today, 1))
      ELSE IF lowerDateString \in
                {KW.day_after_tomorrow, KW.the_day_after_tomorrow, KW.overmorrow}
      THEN Found(addDays(today, 2))
      ELSE IF inDaysMatch(lowerDateString) # {}
      THEN Found(addDays(today,
                 parseInt(CHOOSE n \in inDaysMatch(lowerDateString) : TRUE)))
      ELSE IF daysFromNowMatch(lowerDateString) # {}
      THEN Found(addDays(today,
                 parseInt(CHOOSE n \in daysFromNowMatch(lowerDateString) : TRUE)))
      ELSE IF weekdayDays >= 0 THEN Found(addDays(today, weekdayDays))
      ELSE IF lowerDateString = KW.next_week THEN Found(addDays(today, 7))
      ELSE IF valid # {}
      THEN parse(dateString,
                 dateFormats[CHOOSE k \in valid : \A j \in valid : k <= j])
      ELSE [ok |-> FALSE, date |-> <<>>]

\* new Date(parsedDate) < new Date(): parsedDate is midnight UTC of its day
DateBefore(date, clock) ==
  LET a == date  b == clock.date
  IN  \/ a[1] < b[1]
      \/ a[1] = b[1] /\ a[2] < b[2]
      \/ a[1] = b[1] /\ a[2] = b[2] /\ a[3] < b[3]
      \/ a = b /\ clock.ms > 0

\* ------------------------------------------------ request bodies explored
M ==
  [ cancel      |-> <<"c", "a", "n", "c", "e", "l">>,
    stopMeeting |-> <<"S", "T", "O", "P", " ", "m", "e", "e", "t", "i", "n", "g">>,
    jo          |-> <<" ", "J", "o">>,
    j           |-> <<"J">>,
    emailOk     |-> <<"M", "e", "e", "t", "i", "n", "g", "@", "E", "x", ".", "c", "o", "m">>,
    emailInfo   |-> <<"j", "o", "@", "e", "x", ".", "i", "n", "f", "o">>,
    phone       |-> <<"+", "1", " ", "(", "5", "5", ")", " ", "5", "-", "0", "1">>,
    tomorrow    |-> <<"T", "o", "m", "o", "r", "r", "o", "w">>,
    today       |-> <<"t", "o", "d", "a", "y">>,
    fivePm      |-> <<"5", " ", "P", "M">>,
    blank       |-> <<" ", " ", " ">>,
    empty       |-> <<>> ]

Messages ==
  { M.cancel,
    M.stopMeeting,
    M.jo,
    M.j,
    M.emailOk,
    M.emailInfo,
    M.phone,
    M.tomorrow,
    M.today,
    M.fivePm,
    M.blank,
    M.empty }

\* the instants at which the explored behaviours run (new Date())
Clocks ==
  { [date |-> <<2026, 12, 31>>, ms |-> 1] }

SessionId == <<"session-1">>

\* ------------------------------------------------------------- responses
\* A response text is the sequence of its literal fragments, without the values
\* interpolated between them and cut at the first line break; <<>> is the
\* empty string.
R ==
  [ cancelled         |-> <<"No problem! I've cancelled the appointment booking. How can I help you today? You can:">>,
    askName           |-> <<"I'd be happy to help you schedule an appointment! Let me collect some information from you.">>,
    nameInvalid       |-> <<"Please provide a valid name with at least 2 characters.">>,
    askEmail          |-> <<"Thank you, ", "! Now, could you please provide your email address?">>,
    emailInvalid      |-> <<"Please provide a valid email address (e.g., john@example.com).">>,
    askPhone          |-> <<"Great! Now, please provide your phone number (with country code if international).">>,
    phoneInvalid      |-> <<"Please provide a valid phone number (numbers only, with optional + for country code).">>,
    askDate           |-> <<"Perfect! When would you like to schedule the appointment? You can say things like 'tomorrow', 'next Monday', or provide a specific date (YYYY-MM-DD format).">>,
    dateNotUnderstood |-> <<"I couldn't understand that date format. Please try again with formats like 'tomorrow', 'next Monday', or 'YYYY-MM-DD' (e.g., 2024-01-15).">>,
    datePast          |-> <<"Please select a future date for your appointment.">>,
    askTime           |-> <<"Great! I've scheduled it for ", ". What time would you prefer? Please provide time in HH:MM format (e.g., 14:30 or 2:30 PM).">>,
    timeInvalid       |-> <<"Please provide a valid time format. Examples: '5 PM', '5:30 PM', '17:00', '14:30'">>,
    askPurpose        |-> <<"Excellent! Finally, could you briefly describe the purpose of your appointment? (Optional - you can say 'general consultation' if you prefer)">>,
    confirmed         |-> <<"Perfect! I've successfully booked your appointment with the following details:">>,
    bookingFailed     |-> <<"I apologize, but there was an error booking your appointment. Please try again or contact us directly.">>,
    default           |-> <<"Let me help you with that. How can I assist you today?">>,
    notFound          |-> <<"I couldn't find specific information about \"", "\" in your uploaded documents.">>,
    queryError        |-> <<"I apologize, but I encountered an error while processing your question. Please try again.">>,
    answer            |-> <<"(text generated by the model)">>,
    error             |-> <<"I apologize, but I encountered an error. Please try again.">> ]

\* ------------------------------------------------------------ data model
\* Conversation.context.appointmentData
EmptyDraft ==
  [name |-> Undefined, email |-> Undefined, phone |-> Undefined,
   date |-> Undefined, time |-> Undefined, purpose |-> Undefined]

\* The message log is append-only and never read by the handlers: a document
\* carries the entries pushed onto the log since the document was loaded, so a
\* stored document shows what its last save appended to the log before it.
EmptyLog == <<>>

\* conversation.messages.push(entry)
push(log, entry) == Append(log, entry)

\* new Conversation({sessionId, messages: [], context: {currentStep: 'chat', ...}})
NewConversation ==
  [sessionId |-> SessionId,
   messages  |-> EmptyLog,
   context   |-> [currentStep |-> "chat", appointmentData |-> EmptyDraft]]

\* Conversation.findOne({sessionId}) on the stored collection
findOne(store) ==
  IF store.found
  THEN [store.doc EXCEPT !.messages = EmptyLog]
  ELSE NewConversation

\* messageSchema: content is required (a required String must be non-empty)
ConversationValid(doc) ==
  \A i \in 1..Len(doc.messages) : doc.messages[i].content # <<>>

\* new Date(`${date}T${time}:00.000Z`) is a valid Date
IsoDateTimeValid(date, time) ==
  /\ Len(date) = 3
  /\ Len(time) = 5 /\ time[3] = ":"
  /\ Hour24(SubSeq(time, 1, 2)) /\ Minute(SubSeq(time, 4, 5))

\* new Appointment({...}) with the schema's setters and defaults
Appointment(name, email, phone, date, time, purpose, sessionId) ==
  [name            |-> trim(name),
   email           |-> toLowerCase(trim(email)),
   phone           |-> trim(phone),
   appointmentDate |-> IF IsoDateTimeValid(date, time)
                       THEN <<date, time>> ELSE <<>>,
   appointmentTime |-> time,
   purpose         |-> IF purpose = Undefined
                       THEN KW.General_consultation ELSE purpose,
   status          |-> "pending",
   conversationId  |-> sessionId]

\* appointmentSchema validation run by appointment.save()
AppointmentValid(a) ==
  /\ a.name # <<>>
  /\ a.email # <<>> /\ schemaEmailMatch(a.email)
  /\ a.phone # <<>> /\ phoneRegex(a.phone)
  /\ a.appointmentDate # <<>>
  /\ a.appointmentTime # <<>>
  /\ a.conversationId # <<>>

\* ------------------------------------------------- handleAppointmentFlow
\* What a field case does with a message: reject it with a re-prompt, or
\* store `value` in `field` and move to `nextStep`.
Reject(response) ==
  [accepted |-> FALSE, field |-> "", value |-> <<>>, nextStep |-> "",
   response |-> response]

Accept(field, value, nextStep, response) ==
  [accepted |-> TRUE, field |-> field, value |-> value, nextStep |-> nextStep,
   response |-> response]

\* case 'appointment_name'
caseName(message) ==
  IF Len(trim(message)) < 2 THEN Reject(R.nameInvalid)
  ELSE Accept("name", trim(message), "appointment_email", R.askEmail)

\* the appointment_email case moving on to appointment_date, past the phone
caseEmail_skipsPhone(message) ==
  IF ~emailRegex(trim(message)) THEN Reject(R.emailInvalid)
  ELSE Accept("email", toLowerCase(trim(message)), "appointment_date",
              R.askDate)

\* case 'appointment_email'
caseEmail(message) ==
  IF ~emailRegex(trim(message)) THEN Reject(R.emailInvalid)
  ELSE Accept("email", toLowerCase(trim(message)), "appointment_phone",
              R.askPhone)

\* casePhone moving on to appointment_time, past the date
casePhone_skipsDate(message) ==
  IF ~phoneRegex(cleanPhone(message)) THEN Reject(R.phoneInvalid)
  ELSE Accept("phone", cleanPhone(message), "appointment_time", R.askTime)

\* case 'appointment_phone'
casePhone(message) ==
  IF ~phoneRegex(cleanPhone(message)) THEN Reject(R.phoneInvalid)
  ELSE Accept("phone", cleanPhone(message), "appointment_date", R.askDate)

\* caseDate without the comparison with the current moment
caseDate_acceptsPast(message, clock) ==
  LET parsedDate == parseNaturalDate(message, clock.date)
  IN  IF ~parsedDate.ok THEN Reject(R.dateNotUnderstood)
      ELSE Accept("date", parsedDate.date, "appointment_time", R.askTime)

\* the appointment_date case comparing calendar days instead of moments
caseDate_comparesDays(message, clock) ==
  LET parsedDate == parseNaturalDate(message, clock.date)
  IN  IF ~parsedDate.ok THEN Reject(R.dateNotUnderstood)
      ELSE IF DateBefore(parsedDate.date, [clock EXCEPT !.ms = 0])
      THEN Reject(R.datePast)
      ELSE Accept("date", parsedDate.date, "appointment_time", R.askTime)

\* case 'appointment_date'
caseDate(message, clock) ==
  LET parsedDate == parseNaturalDate(message, clock.date)
  IN  IF ~parsedDate.ok THEN Reject(R.dateNotUnderstood)
      ELSE IF DateBefore(parsedDate.date, clock) THEN Reject(R.datePast)
      ELSE Accept("date", parsedDate.date, "appointment_time", R.askTime)

\* case 'appointment_time'
caseTime(message) ==
  LET t == parseTime(message)
  IN  IF ~t.validTime THEN Reject(R.timeInvalid)
      ELSE Accept("time", t.finalTimeString, "appointment_purpose",
                  R.askPurpose)

FieldSteps ==
  {"appointment_name", "appointment_email", "appointment_phone",
   "appointment_date", "appointment_time"}

caseField(currentStep, message, clock) ==
  CASE currentStep = "appointment_name"  -> caseName(message)
    [] currentStep = "appointment_email" -> caseEmail(message)
    [] currentStep = "appointment_phone" -> casePhone(message)
    [] currentStep = "appointment_date"  -> caseDate(message, clock)
    [] currentStep = "appointment_time"  -> caseTime(message)

\* the messages that reach handleConversation, as sendMessage trims them
Texts == {trim(m) : m \in Messages} \ {<<>>}

\* caseField and the two keyword tests, tabulated once over the explored texts
FieldTable ==
  [k \in FieldSteps \X Texts \X Clocks |-> caseField(k[1], k[2], k[3])]

IntentTable ==
  [t \in Texts |-> [wantsToCancel    |-> wantsToCancel(t),
                    wantsAppointment |-> wantsAppointment(t)]]

Outcome(context, response) ==
  [context |-> context, response |-> response, saved |-> <<>>, errors |-> {}]

\* casePurpose whose catch block leaves currentStep alone
casePurpose_staysOnFailure(context, message, sessionId, storeOk) ==
  LET purpose == IF trim(message) # <<>> THEN trim(message)
                 ELSE KW.General_consultation
      data == [context.appointmentData EXCEPT !.purpose = purpose]
      appointment == Appointment(data.name, data.email, data.phone, data.date,
                                 data.time, purpose, sessionId)
  IN  IF storeOk /\ AppointmentValid(appointment)
      THEN [context  |-> [currentStep |-> "chat", appointmentData |-> EmptyDraft],
            response |-> R.confirmed,
            saved    |-> <<appointment>>,
            errors   |-> {}]
      ELSE [context  |-> [currentStep |-> context.currentStep,
                          appointmentData |-> data],
            response |-> R.bookingFailed,
            saved    |-> <<>>,
            errors   |-> {IF storeOk THEN "appointment: validation failed"
                          ELSE "appointment: store unavailable"}]

\* case 'appointment_purpose'; storeOk: the Appointment collection accepts
\* the write
casePurpose(context, message, sessionId, storeOk) ==
  LET purpose == IF trim(message) # <<>> THEN trim(message)
                 ELSE KW.General_consultation
      data == [context.appointmentData EXCEPT !.purpose = purpose]
      appointment == Appointment(data.name, data.email, data.phone, data.date,
                                 data.time, purpose, sessionId)
  IN  IF storeOk /\ AppointmentValid(appointment)
      THEN [context  |-> [currentStep |-> "chat", appointmentData |-> EmptyDraft],
            response |-> R.confirmed,
            saved    |-> <<appointment>>,
            errors   |-> {}]
      ELSE [context  |-> [currentStep |-> "chat", appointmentData |-> data],
            response |-> R.bookingFailed,
            saved    |-> <<>>,
            errors   |-> {IF storeOk THEN "appointment: validation failed"
                          ELSE "appointment: store unavailable"}]

\* the assignments of a field case: an accepted value is stored in its field
\* and the next state is entered, a rejected one changes nothing
storeField(context, r) ==
  IF r.accepted
  THEN Outcome([currentStep |-> r.nextStep,
                appointmentData |->
                  [context.appointmentData EXCEPT ![r.field] = r.value]],
               r.response)
  ELSE Outcome(context, r.response)

handleAppointmentFlow(context, message, sessionId, clock, storeOk) ==
  IF context.currentStep \in FieldSteps
  THEN storeField(context, FieldTable[<<context.currentStep, message, clock>>])
  ELSE IF context.currentStep = "appointment_purpose"
  THEN casePurpose(context, message, sessionId, storeOk)
  ELSE Outcome([context EXCEPT !.currentStep = "chat"], R.default)

\* --------------------------------------------------- handleDocumentQuery
\* handleDocumentQuery answering a failed chain.invoke like an empty search
handleDocumentQuery_hidesFailure(retrieval, llm) ==
  IF retrieval = "throws" THEN R.queryError
  ELSE IF retrieval = "none" THEN R.notFound
  ELSE IF llm = "throws" THEN R.notFound
  ELSE IF llm = "empty" THEN <<>>
  ELSE R.answer

\* the response for each outcome of searchDocuments and of chain.invoke
handleDocumentQuery(retrieval, llm) ==
  IF retrieval = "throws" THEN R.queryError
  ELSE IF retrieval = "none" THEN R.notFound
  ELSE IF llm = "throws" THEN R.queryError
  ELSE IF llm = "empty" THEN <<>>
  ELSE R.answer

\* the calls handleDocumentQuery makes: searchDocuments once, and chain.invoke
\* once when relevantDocs is not empty
invocations(retrieval, llm) ==
  [relevantDocs |-> retrieval,
   calls        |-> IF retrieval = "some" THEN 1 ELSE 0,
   outcome      |-> IF retrieval = "some" THEN llm ELSE ""]

\* ---------------------------------------------------- handleConversation
\* Route taking the booking-intent branch in every state
Route_bookAnywhere(context, message) ==
  IF IntentTable[message].wantsToCancel /\ context.currentStep # "chat"
  THEN "cancel"
  ELSE IF IntentTable[message].wantsAppointment THEN "book"
  ELSE IF context.currentStep # "chat" THEN "flow"
  ELSE "query"

\* which branch of handleConversation takes the message
Route(context, message) ==
  IF IntentTable[message].wantsToCancel /\ context.currentStep # "chat"
  THEN "cancel"
  ELSE IF IntentTable[message].wantsAppointment /\ context.currentStep = "chat"
  THEN "book"
  ELSE IF context.currentStep # "chat" THEN "flow"
  ELSE "query"

\* cancelBooking without the reset of appointmentData
cancelBooking_keepsDraft(context) ==
  Outcome([currentStep |-> "chat", appointmentData |-> context.appointmentData],
          R.cancelled)

\* the cancellation branch
cancelBooking(context) ==
  Outcome([currentStep |-> "chat", appointmentData |-> EmptyDraft], R.cancelled)

\* startBooking without the reset of appointmentData
startBooking_keepsDraft(context) ==
  Outcome([currentStep |-> "appointment_name",
           appointmentData |-> context.appointmentData],
          R.askName)

\* the booking-intent branch
startBooking(context) ==
  Outcome([currentStep |-> "appointment_name", appointmentData |-> EmptyDraft],
          R.askName)

\* the branch taken between the two pushes
Branch(route, conversation, message, clock, env) ==
  IF route = "cancel" THEN cancelBooking(conversation.context)
  ELSE IF route = "book" THEN startBooking(conversation.context)
  ELSE IF route = "flow"
  THEN handleAppointmentFlow(conversation.context, message,
                             conversation.sessionId, clock, env.appointmentStore)
  ELSE Outcome(conversation.context,
               handleDocumentQuery(env.retrieval, env.llm))

Respond(conversation, message, clock, env) ==
  Branch(Route(conversation.context, message), conversation, message, clock, env)

\* what handleConversation leaves and returns once conversation.save() has
\* resolved (persisted) or thrown into the catch block
Settle(store, env, out, conversation, persisted) ==
  [saved    |-> out.saved,
   store    |-> IF persisted THEN [found |-> TRUE, doc |-> conversation]
                ELSE store,
   result   |-> IF persisted
                THEN [response |-> out.response,
                      currentStep |-> conversation.context.currentStep]
                ELSE [response |-> R.error, currentStep |-> "chat"],
   errors   |-> out.errors \cup
                (IF persisted THEN {}
                 ELSE {IF env.conversationStore
                       THEN "conversation: validation failed"
                       ELSE "conversation: store unavailable"})]

\* await conversation.save()
save(store, env, out, conversation) ==
  Settle(store, env, out, conversation,
         env.conversationStore /\ ConversationValid(conversation))

\* the assistant entry pushed onto the document the branch worked on
pushAssistant(store, env, withUser, out) ==
  save(store, env, out,
       [withUser EXCEPT
          !.context = out.context,
          !.messages = push(@, [role |-> "assistant",
                                content |-> out.response])])

\* the user entry pushed onto the loaded document, then the branch
pushUser(store, message, clock, env, withUser) ==
  pushAssistant(store, env, withUser, Respond(withUser, message, clock, env))

\* handleConversation after a successful findOne: the conversation document
\* handed to conversation.save(), the value returned or the catch result
handleConversation(store, message, clock, env) ==
  pushUser(store, message, clock, env,
           [findOne(store) EXCEPT
              !.messages = push(@, [role |-> "user", content |-> message])])

\* ------------------------------------------------------------------ state
\* now:          the instant of the explored window
\* stored:       the Conversation document of the session in durable storage
\* appointments: the Appointment documents in durable storage, oldest first
\* request:      body.message of the last request received
\* reply:        the HTTP reply to the last request
\* errors:       what the last request logged with console.error
\* turns:        number of requests received
\* chain:        handleDocumentQuery of the last request: what searchDocuments
\*               gave, the number of chain.invoke calls and their outcome
VARIABLES now, stored, appointments, request, reply, errors, turns, chain

vars == <<now, stored, appointments, request, reply, errors, turns, chain>>

\* the document side of the service (FastLangChainService, DocumentProcessor)
\* durable:        the Document collection, document id -> chunks
\* documentStore:  this.documentStore, document id -> chunks
\* embeddingQueue: this.embeddingQueue, document id -> status
\* jobs:           the callbacks queueEmbeddingGeneration handed to setTimeout
\* cleanup:        the pending 5-minute timers that delete a queue entry
\* reloads:        the executions of initializeDocumentStore
\* requests:       the calls of processUploadedFile and deleteDocument
\* calls:          number of calls received by the document side
VARIABLES durable, documentStore, embeddingQueue, jobs, cleanup, reloads,
          requests, calls

docVars ==
  <<durable, documentStore, embeddingQueue, jobs, cleanup, reloads, requests,
    calls>>

\* the retrieval side of the service
\* search:         the last call of searchDocuments: its arguments, the
\*                 entries of this.documentStore it iterates over, the outcome
\*                 of embeddings.embedQuery and what it returned
VARIABLES search

\* call:           the last evaluation of parseNaturalDate or of the
\*                 appointment_time case: its argument, the day it ran on and
\*                 what it returned
VARIABLES call

\* run:            initializeDocumentStore at one document: the vectors of
\*                 its chunks as Document.find returned them, as durable
\*                 storage holds them and as the store holds them, and the
\*                 execution of processDocument: the texts splitText gave,
\*                 the loop variable i, every chunk's number of embedQuery
\*                 calls and the state of its call, and processedChunks
VARIABLES run

\* cosine:         the last call of cosineSimilarity: its two vectors and
\*                 what it returned
VARIABLES cosine

\* race:           two executions of handleConversation for one session that
\*                 overlap: the session and the Appointments in durable
\*                 storage, and for each execution its message, where it
\*                 stands and the conversation document it holds
VARIABLES race

allVars == <<vars, docVars, search, call, run, cosine, race>>

\* the document ids explored
DocIds == {"d1"}

\* embeddingQueue.get(id) of an id without entry
Absent == "absent"

\* what a Map or the collection holds under an id: nothing, or a document
\* with its chunks
NoDocument == [present |-> FALSE, chunks |-> <<>>]

Doc(chunks) == [present |-> TRUE, chunks |-> chunks]

\* new FastLangChainService(): both Maps are empty and the constructor has
\* called initializeDocumentStore, whose Document.find is pending
Constructed ==
  /\ durable = [id \in DocIds |-> NoDocument]
  /\ documentStore = [id \in DocIds |-> NoDocument]
  /\ embeddingQueue = [id \in DocIds |-> Absent]
  /\ jobs = <<>>
  /\ cleanup = [id \in DocIds |-> 0]
  /\ reloads = <<[pc |-> "find", documents |-> <<>>, chunks |-> <<>>]>>
  /\ requests = <<>>
  /\ calls = 0

\* no call of searchDocuments has been made
NoSearch ==
  [pc |-> "idle", store |-> <<>>, query |-> <<>>, k |-> 0,
   embedQuery |-> [rejected |-> FALSE, value |-> <<>>], results |-> <<>>]

\* no date or time has been parsed
NoCall ==
  [pc |-> "idle", fn |-> "", text |-> <<>>, today |-> <<>>, ok |-> FALSE,
   value |-> <<>>]

\* processDocument has not been called
NoRun ==
  [pc |-> "idle", chunks |-> <<>>, found |-> <<>>, stored |-> <<>>,
   inStore |-> <<>>, i |-> 0, issued |-> <<>>, calls |-> <<>>,
   processedChunks |-> <<>>]

\* cosineSimilarity has not been called
NoCosine == [pc |-> "idle", vecA |-> <<>>, vecB |-> <<>>, result |-> <<>>]

\* no two requests overlap
NoRace == [session |-> <<>>, appointments |-> <<>>, handlers |-> <<>>]

\* handleDocumentQuery was not called
NoChain == [relevantDocs |-> "", calls |-> 0, outcome |-> ""]

\* the conversation side before its first request
Listening ==
  /\ now \in Clocks
  /\ stored = [found |-> FALSE, doc |-> NewConversation]
  /\ appointments = <<>>
  /\ request = <<>>
  /\ reply = [op |-> "", status |-> 0, error |-> "", response |-> <<>>,
              currentStep |-> ""]
  /\ errors = {}
  /\ turns = 0
  /\ chain = NoChain

Init ==
  /\ Listening
  /\ Constructed
  /\ search = NoSearch
  /\ call = NoCall
  /\ run = NoRun
  /\ cosine = NoCosine
  /\ race = NoRace

Receive(m) ==
  /\ turns < MaxTurns
  /\ turns' = turns + 1
  /\ request' = m
  /\ now' = now
  /\ UNCHANGED <<docVars, search, call, run, cosine, race>>

\* message.trim() of sendMessage, tabulated over the explored bodies
Trimmed == [m \in Messages |-> trim(m)]

\* the context handleConversation would load for the next message
Context == findOne(stored).context

\* sendMessage: a missing or blank message is rejected before the service
RejectMessage(m) ==
  /\ Receive(m)
  /\ Trimmed[m] = <<>>
  /\ reply' = [op |-> "sendMessage", status |-> 400,
               error |-> "Message is required",
               response |-> <<>>, currentStep |-> ""]
  /\ errors' = {}
  /\ chain' = NoChain
  /\ UNCHANGED <<stored, appointments>>

\* handleConversation: Conversation.findOne rejects
FindFails(m) ==
  /\ Receive(m)
  /\ Trimmed[m] # <<>>
  /\ reply' = [op |-> "sendMessage", status |-> 200, error |-> "",
               response |-> R.error, currentStep |-> "chat"]
  /\ errors' = {"conversation: find failed"}
  /\ chain' = NoChain
  /\ UNCHANGED <<stored, appointments>>

\* res.json of sendMessage, with what the turn h wrote to durable storage and
\* logged
Answer(h) ==
  /\ stored' = h.store
  /\ appointments' = appointments \o h.saved
  /\ reply' = [op |-> "sendMessage", status |-> 200, error |-> "",
               response |-> h.result.response,
               currentStep |-> h.result.currentStep]
  /\ errors' = h.errors

\* sendMessage -> handleConversation with the message trimmed by sendMessage
Turn(m, env) ==
  /\ Receive(m)
  /\ Trimmed[m] # <<>>
  /\ Answer(handleConversation(stored, Trimmed[m], now, env))
  /\ chain' = IF Route(Context, Trimmed[m]) = "query"
              THEN invocations(env.retrieval, env.llm) ELSE NoChain

DefaultEnv(conversationStore) ==
  [appointmentStore |-> TRUE, retrieval |-> "none", llm |-> "text",
   conversationStore |-> conversationStore]

\* cancellation branch
CancelTurn(m, conversationStore) ==
  /\ Trimmed[m] # <<>> /\ Route(Context, Trimmed[m]) = "cancel"
  /\ Turn(m, DefaultEnv(conversationStore))

\* booking-intent branch
BookTurn(m, conversationStore) ==
  /\ Trimmed[m] # <<>> /\ Route(Context, Trimmed[m]) = "book"
  /\ Turn(m, DefaultEnv(conversationStore))

\* handleAppointmentFlow branch
FlowTurn(m, appointmentStore, conversationStore) ==
  /\ Trimmed[m] # <<>> /\ Route(Context, Trimmed[m]) = "flow"
  /\ (Context.currentStep # "appointment_purpose" => appointmentStore)
  /\ Turn(m, [DefaultEnv(conversationStore)
                EXCEPT !.appointmentStore = appointmentStore])

\* handleDocumentQuery branch
QueryTurn(m, retrieval, llm, conversationStore) ==
  /\ Trimmed[m] # <<>> /\ Route(Context, Trimmed[m]) = "query"
  /\ (retrieval # "some" => llm = "text")
  /\ Turn(m, [DefaultEnv(conversationStore)
                EXCEPT !.retrieval = retrieval, !.llm = llm])

\* clearConversation: Conversation.findOneAndDelete({sessionId})
clearConversation ==
  /\ turns < MaxTurns
  /\ turns' = turns + 1
  /\ stored' = [found |-> FALSE, doc |-> NewConversation]
  /\ request' = <<>>
  /\ reply' = [op |-> "clearConversation", status |-> 200, error |-> "",
               response |-> <<>>, currentStep |-> ""]
  /\ errors' = {}
  /\ chain' = NoChain
  /\ UNCHANGED <<now, appointments>>
  /\ UNCHANGED <<docVars, search, call, run, cosine, race>>

Next ==
  \/ \E m \in Messages : RejectMessage(m)
  \/ \E m \in Messages : FindFails(m)
  \/ \E m \in Messages, cs \in BOOLEAN : CancelTurn(m, cs)
  \/ \E m \in Messages, cs \in BOOLEAN : BookTurn(m, cs)
  \/ \E m \in Messages, as \in BOOLEAN, cs \in BOOLEAN : FlowTurn(m, as, cs)
  \/ \E m \in Messages, r \in {"none", "some", "throws"},
        g \in {"text", "empty", "throws"}, cs \in BOOLEAN :
       QueryTurn(m, r, g, cs)
  \/ clearConversation

Spec == Init /\ [][Next]_allVars

\* ----------------------------------------------------------- properties
Step == Context.currentStep

Draft == Context.appointmentData

Step1 == findOne(stored').context.currentStep

Draft1 == findOne(stored').context.appointmentData

\* this step is a sendMessage request that reached handleConversation's
\* routing (the message was not blank and the session was loaded)
Handled ==
  /\ turns' = turns + 1
  /\ reply'.op = "sendMessage" /\ reply'.status = 200
  /\ "conversation: find failed" \notin errors'

\* the message handleConversation received in this step
Msg == Trimmed[request']

\* conversation.save() of this step succeeded
SessionSaved ==
  errors' \cap {"conversation: validation failed",
                "conversation: store unavailable"} = {}

\* no collection was unavailable during this step
StorageUp ==
  errors' \cap {"conversation: store unavailable",
                "appointment: store unavailable"} = {}

StateOrder ==
  <<"appointment_name", "appointment_email", "appointment_phone",
    "appointment_date", "appointment_time", "appointment_purpose">>

FieldOrder == <<"name", "email", "phone", "date", "time", "purpose">>

\* C1: in a non-chat state a message containing a cancellation keyword ends
\* the turn in state chat with an empty draft and creates no Appointment,
\* whatever the booking state, whatever booking keyword the message also
\* contains and whether or not it is valid input for the current field; the
\* turn returns chat, and the session it persists is chat with an empty draft.
C1_CancelResets ==
  [][(Handled /\ Step # "chat" /\ wantsToCancel(Msg)) =>
       /\ reply'.currentStep = "chat"
       /\ appointments' = appointments
       /\ SessionSaved =>
            /\ reply'.response = R.cancelled
            /\ Step1 = "chat" /\ Draft1 = EmptyDraft]_vars

\* a cancellation that also names a booking keyword has reset a booking
C1_Witness ==
  /\ request = M.stopMeeting
  /\ reply.response = R.cancelled
  /\ stored.found /\ Step = "chat" /\ Draft = EmptyDraft

\* C2: a turn in appointment_purpose (reached through the booking keyword and
\* the five accepted fields) whose message has no cancellation keyword, with
\* the storage available, persists exactly one Appointment holding the draft's
\* name, email, phone, date and time, the purpose, the session id and status
\* pending, and leaves the session in chat with an empty draft.
C2_FlowCreatesAppointment ==
  [][(Handled /\ Step = "appointment_purpose" /\ ~wantsToCancel(Msg)
        /\ StorageUp) =>
       /\ Len(appointments') = Len(appointments) + 1
       /\ SubSeq(appointments', 1, Len(appointments)) = appointments
       /\ LET a == appointments'[Len(appointments')]
          IN  /\ a.name = Draft.name /\ a.email = Draft.email
              /\ a.phone = Draft.phone
              /\ a.appointmentDate = <<Draft.date, Draft.time>>
              /\ a.appointmentTime = Draft.time
              /\ a.purpose = Msg
              /\ a.conversationId = SessionId /\ a.status = "pending"
       /\ Step1 = "chat" /\ Draft1 = EmptyDraft]_vars

\* C3: in every persisted session the filled draft fields are a prefix of
\* name, email, phone, date, time, purpose, and the state is chat or the
\* booking state of the first unfilled field.
C3_DraftPrefix ==
  LET d == stored.doc.context.appointmentData
      n == Cardinality({i \in 1..6 : d[FieldOrder[i]] # Undefined})
  IN  /\ \A i \in 1..6 : (d[FieldOrder[i]] # Undefined) <=> (i <= n)
      /\ \/ stored.doc.context.currentStep = "chat"
         \/ n < 6 /\ stored.doc.context.currentStep = StateOrder[n + 1]

\* a booking that has collected name, email, phone and date waits for the time
C3_Witness ==
  /\ stored.found /\ Step = "appointment_time"
  /\ Draft.date # Undefined /\ Draft.time = Undefined

\* the message fails the validation of booking state `step`
FailsValidation(step, message) ==
  CASE step = "appointment_name"  -> Len(trim(message)) < 2
    [] step = "appointment_email" -> ~emailRegex(trim(message))
    [] step = "appointment_phone" -> ~phoneRegex(cleanPhone(message))
    [] step = "appointment_date"  ->
         \/ ~parseNaturalDate(message, now.date).ok
         \/ DateBefore(parseNaturalDate(message, now.date).date, now)
    [] step = "appointment_time"  -> ~parseTime(message).validTime
    [] OTHER -> FALSE

RePrompts ==
  {R.nameInvalid, R.emailInvalid, R.phoneInvalid, R.dateNotUnderstood,
   R.datePast, R.timeInvalid}

\* C4: in appointment_name .. appointment_time a message that fails the
\* state's validation leaves the state and every draft field unchanged and
\* creates no Appointment; the response is a re-prompt.
C4_InvalidInputKeepsState ==
  [][(Handled /\ Step \in FieldSteps /\ ~wantsToCancel(Msg)
        /\ FailsValidation(Step, Msg)) =>
       /\ Step1 = Step /\ Draft1 = Draft
       /\ appointments' = appointments
       /\ SessionSaved => reply'.response \in RePrompts]_vars

\* a date in the past was refused and the booking still waits for the date
C4_Witness ==
  /\ request = M.today
  /\ reply.response = R.datePast
  /\ Step = "appointment_date" /\ Draft.phone # Undefined
  /\ Draft.date = Undefined

\* C5: a booking keyword starts a booking only from chat, where the session
\* moves to appointment_name with an empty draft; in a non-chat state a message
\* with a booking keyword and no cancellation keyword is handled by the
\* current state's handler, without restarting the flow or resetting the draft.
C5_BookingOnlyFromChat ==
  [][Handled =>
       /\ (Step = "chat" /\ wantsAppointment(Msg) /\ SessionSaved) =>
            (Step1 = "appointment_name" /\ Draft1 = EmptyDraft
               /\ reply'.response = R.askName)
       /\ (Step1 = "appointment_name" /\ Step # "appointment_name") =>
            (Step = "chat" /\ wantsAppointment(Msg))
       /\ (Step # "chat" /\ wantsAppointment(Msg) /\ ~wantsToCancel(Msg)) =>
            \E storeOk \in BOOLEAN :
               LET o == handleAppointmentFlow(Context, Msg, SessionId, now,
                                              storeOk)
               IN  /\ appointments' = appointments \o o.saved
                   /\ SessionSaved =>
                        /\ findOne(stored').context = o.context
                        /\ reply'.response = o.response]_vars

\* a message with a booking keyword was taken as the email of a running booking
C5_Witness ==
  /\ request = M.emailOk
  /\ reply.response = R.askPhone
  /\ Step = "appointment_phone"
  /\ Draft.name # Undefined /\ Draft.email = toLowerCase(M.emailOk)

\* appointment.save() of this step failed
AppointmentSaveFailed ==
  errors' \cap {"appointment: validation failed",
                "appointment: store unavailable"} # {}

\* C6: when saving the Appointment fails at appointment_purpose no Appointment
\* is created, the turn returns chat with the failure notice and the persisted
\* session is chat; nothing retries the booking: an Appointment is created only
\* by a turn in appointment_purpose, each booking state is entered only from
\* the state before it, and appointment_name only from chat by a booking
\* keyword, with an empty draft.
C6_SaveFailureNoRetry ==
  [][/\ (Handled /\ Step = "appointment_purpose" /\ ~wantsToCancel(Msg)
           /\ AppointmentSaveFailed) =>
          /\ appointments' = appointments
          /\ reply'.currentStep = "chat"
          /\ SessionSaved =>
               (reply'.response = R.bookingFailed /\ Step1 = "chat")
     /\ appointments' # appointments =>
          (Handled /\ Step = "appointment_purpose")
     /\ \A i \in 2..6 :
          (Step1 = StateOrder[i] /\ Step # StateOrder[i]) =>
             (Handled /\ Step = StateOrder[i - 1])
     /\ (Step1 = "appointment_name" /\ Step # "appointment_name") =>
          (Handled /\ Step = "chat" /\ wantsAppointment(Msg)
             /\ Draft1 = EmptyDraft)]_vars

\* the failure notice was returned, the session is back in chat and no
\* Appointment exists
C6_Witness ==
  /\ reply.response = R.bookingFailed
  /\ "appointment: store unavailable" \in errors
  /\ stored.found /\ Step = "chat"
  /\ appointments = <<>>

C8_EveryTurnLogged ==
  [][(Handled /\ "conversation: store unavailable" \notin errors') =>
       /\ stored'.found
       /\ stored'.doc.messages =
            <<[role |-> "user", content |-> Msg],
              [role |-> "assistant", content |-> reply'.response]>>
       /\ reply'.currentStep = Step1]_vars

\* C9: an Appointment is created only by a turn in appointment_purpose, one
\* at a time, and that turn leaves the persisted session in chat, so that a
\* further Appointment needs a new booking keyword from chat, also when
\* persisting the session fails after the Appointment was saved.
C9_OneAppointmentPerFlow ==
  [][appointments' # appointments =>
       /\ Handled /\ Step = "appointment_purpose"
       /\ Len(appointments') = Len(appointments) + 1
       /\ Step1 = "chat"]_vars

\* C10: a blank message (empty after trimming) sent at appointment_purpose,
\* with the storage available, creates exactly one Appointment with purpose
\* General consultation and returns the session to chat with an empty draft.
C10_BlankPurposeAccepted ==
  [][(turns' = turns + 1 /\ reply'.op = "sendMessage" /\ errors' = {}
        /\ Step = "appointment_purpose" /\ Msg = <<>>) =>
       /\ Len(appointments') = Len(appointments) + 1
       /\ appointments'[Len(appointments')].purpose = KW.General_consultation
       /\ Step1 = "chat" /\ Draft1 = EmptyDraft]_vars

\* ============================================================== documents
\* The explored documents have one chunk. The embedding of a chunk is the
\* vector the embedding service computes for its text, or empty.
Vector == <<"text-embedding-004">>

NoEmbedding == <<>>

chunk(embedding) == [text |-> "chunk_0", embedding |-> embedding]

\* processDocumentFast: the chunks with embedding: []
processDocumentFast == <<chunk(NoEmbedding)>>

\* processDocument: the results it can resolve with; an embedQuery call that
\* rejects leaves the embedding of its chunk empty
processDocument == { <<chunk(e)>> : e \in {Vector, NoEmbedding} }

\* the negation of
\* chunks.length === 0 || !chunks[0].embedding || chunks[0].embedding.length === 0
hasEmbeddings(chunks) ==
  ~(Len(chunks) = 0 \/ chunks[1].embedding = NoEmbedding)

\* Document.find({}): the documents of the collection
DocOrder == <<"d1">>

find(collection) ==
  SelectSeq([i \in 1..Len(DocOrder) |->
               [id |-> DocOrder[i], chunks |-> collection[DocOrder[i]].chunks,
                present |-> collection[DocOrder[i]].present]],
            LAMBDA d : d.present)

\* Document.findByIdAndUpdate(id, {chunks}): no document, nothing written
findByIdAndUpdate(collection, id, chunks) ==
  IF collection[id].present THEN [collection EXCEPT ![id] = Doc(chunks)]
  ELSE collection

\* the for loop of initializeDocumentStore up to its next await: a document
\* that has embeddings is set in the store, one without waits for
\* processDocument
RECURSIVE loop(_, _)
loop(store, documents) ==
  IF documents = <<>> THEN [store |-> store, documents |-> <<>>]
  ELSE IF hasEmbeddings(Head(documents).chunks)
  THEN loop([store EXCEPT ![Head(documents).id] = Doc(Head(documents).chunks)],
            Tail(documents))
  ELSE [store |-> store, documents |-> documents]

\* the execution k of initializeDocumentStore goes on after an await
Continue(k, r) ==
  /\ documentStore' = r.store
  /\ reloads' = [reloads EXCEPT ![k] =
                   [pc        |-> IF r.documents = <<>> THEN "done"
                                  ELSE "processDocument",
                    documents |-> r.documents,
                    chunks    |-> <<>>]]

\* initializeDocumentStore up to its first await: the Map is cleared and
\* Document.find is pending
initializeDocumentStore ==
  /\ documentStore' = [id \in DocIds |-> NoDocument]
  /\ reloads' = Append(reloads,
                       [pc |-> "find", documents |-> <<>>, chunks |-> <<>>])

\* Document.find resolves
ReloadFinds(k) ==
  /\ reloads[k].pc = "find"
  /\ Continue(k, loop(documentStore, find(durable)))
  /\ UNCHANGED <<durable, embeddingQueue, jobs, cleanup, requests, calls>>
  /\ UNCHANGED <<vars, search, call, run, cosine, race>>

\* processDocument resolves with the chunks c
ReloadEmbedded(k, c) ==
  /\ reloads[k].pc = "processDocument"
  /\ reloads' = [reloads EXCEPT ![k].pc = "findByIdAndUpdate", ![k].chunks = c]
  /\ UNCHANGED <<durable, documentStore, embeddingQueue, jobs, cleanup,
                 requests, calls>>
  /\ UNCHANGED <<vars, search, call, run, cosine, race>>

\* Document.findByIdAndUpdate resolves, the document is set in the store and
\* the loop goes on
ReloadUpdated(k) ==
  /\ reloads[k].pc = "findByIdAndUpdate"
  /\ durable' = findByIdAndUpdate(durable, Head(reloads[k].documents).id,
                                  reloads[k].chunks)
  /\ Continue(k, loop([documentStore EXCEPT
                         ![Head(reloads[k].documents).id] =
                            Doc(reloads[k].chunks)],
                      Tail(reloads[k].documents)))
  /\ UNCHANGED <<embeddingQueue, jobs, cleanup, requests, calls>>
  /\ UNCHANGED <<vars, search, call, run, cosine, race>>

\* a call reaches the document side
Call ==
  /\ calls < MaxCalls
  /\ calls' = calls + 1

\* processUploadedFile up to its await of langchainService.processDocument
processUploadedFile(id) ==
  /\ Call
  /\ ~durable[id].present
  /\ \A i \in 1..Len(requests) :
        ~(requests[i].op = "processUploadedFile" /\ requests[i].id = id)
  /\ requests' = Append(requests,
                        [op |-> "processUploadedFile", id |-> id,
                         pc |-> "processDocument", chunks |-> <<>>,
                         reload |-> 0])
  /\ UNCHANGED <<durable, documentStore, embeddingQueue, jobs, cleanup,
                 reloads>>
  /\ UNCHANGED <<vars, search, call, run, cosine, race>>

\* processDocument resolves with the chunks c; document.save() is pending
UploadEmbedded(i, c) ==
  /\ requests[i].op = "processUploadedFile"
  /\ requests[i].pc = "processDocument"
  /\ requests' = [requests EXCEPT ![i].pc = "save", ![i].chunks = c]
  /\ UNCHANGED <<durable, documentStore, embeddingQueue, jobs, cleanup,
                 reloads, calls>>
  /\ UNCHANGED <<vars, search, call, run, cosine, race>>

\* document.save() resolves; refreshDocumentStore is awaited
UploadSaved(i) ==
  /\ requests[i].op = "processUploadedFile"
  /\ requests[i].pc = "save"
  /\ durable' = [durable EXCEPT ![requests[i].id] = Doc(requests[i].chunks)]
  /\ initializeDocumentStore
  /\ requests' = [requests EXCEPT ![i].pc = "refreshDocumentStore",
                                  ![i].reload = Len(reloads) + 1]
  /\ UNCHANGED <<embeddingQueue, jobs, cleanup, calls>>
  /\ UNCHANGED <<vars, search, call, run, cosine, race>>

\* deleteDocument up to its await of findByIdAndDelete; without the document
\* it throws 'Document not found'
deleteDocument(id) ==
  /\ Call
  /\ requests' = Append(requests,
                        [op |-> "deleteDocument", id |-> id,
                         pc |-> IF durable[id].present
                                THEN "findByIdAndDelete" ELSE "thrown",
                         chunks |-> <<>>, reload |-> 0])
  /\ UNCHANGED <<durable, documentStore, embeddingQueue, jobs, cleanup,
                 reloads>>
  /\ UNCHANGED <<vars, search, call, run, cosine, race>>

\* Document.findByIdAndDelete resolves; refreshDocumentStore is awaited
DeleteRemoved(i) ==
  /\ requests[i].op = "deleteDocument"
  /\ requests[i].pc = "findByIdAndDelete"
  /\ durable' = [durable EXCEPT ![requests[i].id] = NoDocument]
  /\ initializeDocumentStore
  /\ requests' = [requests EXCEPT ![i].pc = "refreshDocumentStore",
                                  ![i].reload = Len(reloads) + 1]
  /\ UNCHANGED <<embeddingQueue, jobs, cleanup, calls>>
  /\ UNCHANGED <<vars, search, call, run, cosine, race>>

\* refreshDocumentStore resolves: the request returns its result
RefreshReturns(i) ==
  /\ requests[i].pc = "refreshDocumentStore"
  /\ reloads[requests[i].reload].pc = "done"
  /\ requests' = [requests EXCEPT ![i].pc = "returned"]
  /\ UNCHANGED <<durable, documentStore, embeddingQueue, jobs, cleanup,
                 reloads, calls>>
  /\ UNCHANGED <<vars, search, call, run, cosine, race>>

\* refreshDocumentStore called for a document other than the explored ones
\* (an upload or a deletion of it): initializeDocumentStore starts
refreshDocumentStore ==
  /\ Call
  /\ initializeDocumentStore
  /\ UNCHANGED <<durable, embeddingQueue, jobs, cleanup, requests>>
  /\ UNCHANGED <<vars, search, call, run, cosine, race>>

\* the callback handed to setTimeout(..., 100), before it runs; chunks is its
\* chunksWithEmbeddings, updated whether it has assigned docData.chunks in the
\* store, previous the value docData.chunks had before that assignment
callback(documentId) ==
  [id |-> documentId, pc |-> "setTimeout", chunks |-> <<>>,
   updated |-> FALSE, previous |-> <<>>]

\* queueEmbeddingGeneration without the test for an entry of the id
queueEmbeddingGeneration_always(queue, callbacks, documentId) ==
  [queue |-> [queue EXCEPT ![documentId] = "queued"],
   jobs  |-> Append(callbacks, callback(documentId))]

\* queueEmbeddingGeneration up to its return: the queue and the callbacks
\* handed to setTimeout
queueEmbeddingGeneration(queue, callbacks, documentId) ==
  IF queue[documentId] # Absent
  THEN [queue |-> queue, jobs |-> callbacks]
  ELSE [queue |-> [queue EXCEPT ![documentId] = "queued"],
        jobs  |-> Append(callbacks, callback(documentId))]

\* addDocumentFast of a saved document
addDocumentFast(documentId) ==
  /\ Call
  /\ durable[documentId].present
  /\ documentStore' = [documentStore EXCEPT
                         ![documentId] = Doc(processDocumentFast)]
  /\ embeddingQueue' =
       queueEmbeddingGeneration(embeddingQueue, jobs, documentId).queue
  /\ jobs' = queueEmbeddingGeneration(embeddingQueue, jobs, documentId).jobs
  /\ UNCHANGED <<durable, cleanup, reloads, requests>>
  /\ UNCHANGED <<vars, search, call, run, cosine, race>>

\* JobStarts without the write of 'processing'
JobStarts_staysQueued(j) ==
  /\ jobs[j].pc = "setTimeout"
  /\ jobs' = [jobs EXCEPT ![j].pc = "processDocument"]
  /\ UNCHANGED <<durable, documentStore, embeddingQueue, cleanup, reloads,
                 requests, calls>>
  /\ UNCHANGED <<vars, search, call, run, cosine, race>>

\* the callback of setTimeout(..., 100) up to its await of processDocument
JobStarts(j) ==
  /\ jobs[j].pc = "setTimeout"
  /\ embeddingQueue' = [embeddingQueue EXCEPT ![jobs[j].id] = "processing"]
  /\ jobs' = [jobs EXCEPT ![j].pc = "processDocument"]
  /\ UNCHANGED <<durable, documentStore, cleanup, reloads, requests, calls>>
  /\ UNCHANGED <<vars, search, call, run, cosine, race>>

\* JobEmbedded without the test this.documentStore.has(documentId)
JobEmbedded_setsAlways(j, chunksWithEmbeddings) ==
  /\ jobs[j].pc = "processDocument"
  /\ documentStore' =
       [documentStore EXCEPT ![jobs[j].id] = Doc(chunksWithEmbeddings)]
  /\ jobs' = [jobs EXCEPT ![j].pc = "findByIdAndUpdate",
                          ![j].chunks = chunksWithEmbeddings,
                          ![j].updated = TRUE,
                          ![j].previous = documentStore[jobs[j].id].chunks]
  /\ UNCHANGED <<durable, embeddingQueue, cleanup, reloads, requests, calls>>
  /\ UNCHANGED <<vars, search, call, run, cosine, race>>

\* processDocument resolves with chunksWithEmbeddings: the store is updated
\* if it has the document, Document.findByIdAndUpdate is pending
JobEmbedded(j, chunksWithEmbeddings) ==
  /\ jobs[j].pc = "processDocument"
  /\ documentStore' =
       IF documentStore[jobs[j].id].present
       THEN [documentStore EXCEPT ![jobs[j].id] = Doc(chunksWithEmbeddings)]
       ELSE documentStore
  /\ jobs' = [jobs EXCEPT ![j].pc = "findByIdAndUpdate",
                          ![j].chunks = chunksWithEmbeddings,
                          ![j].updated = documentStore[jobs[j].id].present,
                          ![j].previous = documentStore[jobs[j].id].chunks]
  /\ UNCHANGED <<durable, embeddingQueue, cleanup, reloads, requests, calls>>
  /\ UNCHANGED <<vars, search, call, run, cosine, race>>

\* Document.findByIdAndUpdate resolves: 'completed' and the clean-up timer
JobCompleted(j) ==
  /\ jobs[j].pc = "findByIdAndUpdate"
  /\ durable' = findByIdAndUpdate(durable, jobs[j].id, jobs[j].chunks)
  /\ embeddingQueue' = [embeddingQueue EXCEPT ![jobs[j].id] = "completed"]
  /\ cleanup' = [cleanup EXCEPT ![jobs[j].id] = @ + 1]
  /\ jobs' = [jobs EXCEPT ![j].pc = "completed"]
  /\ UNCHANGED <<documentStore, reloads, requests, calls>>
  /\ UNCHANGED <<vars, search, call, run, cosine, race>>

\* JobFailed without the write of 'error'
JobFailed_silent(j) ==
  /\ jobs[j].pc \in {"processDocument", "findByIdAndUpdate"}
  /\ jobs' = [jobs EXCEPT ![j].pc = "error"]
  /\ UNCHANGED <<durable, documentStore, embeddingQueue, cleanup, reloads,
                 requests, calls>>
  /\ UNCHANGED <<vars, search, call, run, cosine, race>>

\* processDocument or Document.findByIdAndUpdate rejects: the catch block
JobFailed(j) ==
  /\ jobs[j].pc \in {"processDocument", "findByIdAndUpdate"}
  /\ embeddingQueue' = [embeddingQueue EXCEPT ![jobs[j].id] = "error"]
  /\ jobs' = [jobs EXCEPT ![j].pc = "error"]
  /\ UNCHANGED <<durable, documentStore, cleanup, reloads, requests, calls>>
  /\ UNCHANGED <<vars, search, call, run, cosine, race>>

\* the callback of setTimeout(..., 300000)
Cleanup(documentId) ==
  /\ cleanup[documentId] > 0
  /\ cleanup' = [cleanup EXCEPT ![documentId] = @ - 1]
  /\ embeddingQueue' = [embeddingQueue EXCEPT ![documentId] = Absent]
  /\ UNCHANGED <<durable, documentStore, jobs, reloads, requests, calls>>
  /\ UNCHANGED <<vars, search, call, run, cosine, race>>

DocNext ==
  \/ \E id \in DocIds : processUploadedFile(id)
  \/ \E i \in 1..Len(requests), c \in processDocument : UploadEmbedded(i, c)
  \/ \E i \in 1..Len(requests) : UploadSaved(i)
  \/ \E id \in DocIds : deleteDocument(id)
  \/ \E i \in 1..Len(requests) : DeleteRemoved(i)
  \/ \E i \in 1..Len(requests) : RefreshReturns(i)
  \/ refreshDocumentStore
  \/ \E id \in DocIds : addDocumentFast(id)
  \/ \E j \in 1..Len(jobs) : JobStarts(j)
  \/ \E j \in 1..Len(jobs), c \in processDocument : JobEmbedded(j, c)
  \/ \E j \in 1..Len(jobs) : JobCompleted(j)
  \/ \E j \in 1..Len(jobs) : JobFailed(j)
  \/ \E id \in DocIds : Cleanup(id)
  \/ \E k \in 1..Len(reloads) : ReloadFinds(k)
  \/ \E k \in 1..Len(reloads), c \in processDocument : ReloadEmbedded(k, c)
  \/ \E k \in 1..Len(reloads) : ReloadUpdated(k)

DocSpec == Init /\ [][DocNext]_allVars

\* the event loop runs every timer callback whose delay has elapsed
DocFairSpec ==
  DocSpec /\ \A id \in DocIds : WF_allVars(Cleanup(id))

\* a step of the callback j of setTimeout(..., 100)
JobStep(j) ==
  /\ j \in 1..Len(jobs)
  /\ \/ JobStarts(j)
     \/ \E c \in processDocument : JobEmbedded(j, c)
     \/ JobCompleted(j)
     \/ JobFailed(j)

\* the timer of a queued callback fires, and every call the callback awaits
\* returns or fails
DocLiveSpec == DocSpec /\ \A j \in 1..MaxCalls : WF_allVars(JobStep(j))

\* ------------------------------------------------- properties, documents
\* the jobs of a document id that have not finished
Running(callbacks, id) ==
  {j \in 1..Len(callbacks) :
     /\ callbacks[j].id = id
     /\ callbacks[j].pc \in {"setTimeout", "processDocument",
                             "findByIdAndUpdate"}}

\* this step is a call of addDocumentFast, and so of
\* queueEmbeddingGeneration, for the document id
Enqueues(id) ==
  /\ calls' = calls + 1
  /\ requests' = requests
  /\ documentStore' = [documentStore EXCEPT ![id] = Doc(processDocumentFast)]

\* C11: while the queue entry of a document id is queued or processing, a
\* further queueEmbeddingGeneration call for the id starts no job and leaves
\* the entry alone, and exactly one job of the id is under way.
C11_EnqueueIdempotent ==
  [][\A id \in DocIds :
       /\ (Enqueues(id) /\ embeddingQueue[id] \in {"queued", "processing"}) =>
            (jobs' = jobs /\ embeddingQueue' = embeddingQueue)
       /\ embeddingQueue'[id] \in {"queued", "processing"} =>
            Cardinality(Running(jobs', id)) = 1]_allVars

\* the document was handed to addDocumentFast twice and its one job is under
\* way
C11_Witness ==
  /\ calls - Len(requests) = 2
  /\ Len(jobs) = 1
  /\ embeddingQueue["d1"] = "processing"

\* C12: an entry is queued when the enqueue returns, its job not yet running,
\* and its status then changes only from queued to processing and from
\* processing to completed or error; a completed or error entry takes no other
\* status, it can only be deleted.
C12_StatusOrder ==
  [][\A id \in DocIds :
       embeddingQueue'[id] # embeddingQueue[id] =>
         \/ /\ embeddingQueue[id] = Absent /\ embeddingQueue'[id] = "queued"
            /\ Enqueues(id)
            /\ jobs' = Append(jobs, callback(id))
         \/ embeddingQueue[id] = "queued" /\ embeddingQueue'[id] = "processing"
         \/ /\ embeddingQueue[id] = "processing"
            /\ embeddingQueue'[id] \in {"completed", "error"}
         \/ /\ embeddingQueue[id] \in {"completed", "error"}
            /\ embeddingQueue'[id] = Absent]_allVars

\* a job has gone through queued and processing and ended in error
C12_Witness ==
  /\ Len(jobs) = 1
  /\ jobs[1].pc = "error"
  /\ embeddingQueue[jobs[1].id] = "error"

\* C13: every entry that reaches completed or error is removed from the queue
\* once its retention time has elapsed.
C13_FinishedEntriesRemoved ==
  \A id \in DocIds :
    (embeddingQueue[id] \in {"completed", "error"}) ~>
      (embeddingQueue[id] = Absent)

\* C14: a job that ends in error has changed the chunks of neither copy: its
\* store update, if it made one, replaced the chunks by equal ones, and the
\* failing step writes nothing.
C14_ErrorLeavesChunks ==
  [][\A j \in 1..Len(jobs) :
       (jobs[j].pc = "findByIdAndUpdate" /\ jobs'[j].pc = "error") =>
         /\ jobs[j].updated => jobs[j].previous = jobs[j].chunks
         /\ durable' = durable
         /\ documentStore' = documentStore]_allVars

\* C15: whenever the entry of a document that is in durable storage and was
\* handed to addDocumentFast once is completed, its job having computed the
\* vectors, durable storage holds the chunks the job computed, and the store,
\* if it has the document, holds the same chunks.
C15_CompletedMeansPersisted ==
  \A id \in DocIds : \A j \in 1..Len(jobs) :
    (/\ embeddingQueue[id] = "completed"
     /\ durable[id].present
     /\ calls - Len(requests) = 1
     /\ jobs[j].id = id
     /\ jobs[j].pc = "completed"
     /\ hasEmbeddings(jobs[j].chunks)) =>
      /\ durable[id] = Doc(jobs[j].chunks)
      /\ documentStore[id].present => documentStore[id] = durable[id]

\* C16: no upload waits for an embedding call; it saves the chunks of
\* processDocumentFast, and when it responds the document is in the store and
\* its embedding has been enqueued.
C16_UploadDecoupled ==
  [][\A i \in 1..Len(requests') :
       requests'[i].op = "processUploadedFile" =>
         /\ requests'[i].pc # "processDocument"
         /\ (i <= Len(requests) /\ requests[i].pc = "save"
               /\ requests'[i].pc # "save") =>
              durable'[requests[i].id] = Doc(processDocumentFast)
         /\ (i <= Len(requests) /\ requests[i].pc # "returned"
               /\ requests'[i].pc = "returned") =>
              /\ documentStore'[requests[i].id].present
              /\ embeddingQueue'[requests[i].id] # Absent]_allVars

\* the reloads between their clearing of the map and their last insertion
Reloading == {k \in 1..Len(reloads) : reloads[k].pc # "done"}

\* C17: at no time are two executions of initializeDocumentStore both between
\* clearing the map and inserting their last document.
C17_ReloadsExclusive == Cardinality(Reloading) <= 1

\* C18: once no reload is in progress the store holds exactly the documents
\* of durable storage, so that a deleted document is not in the store.
C18_StoreMatchesDurable ==
  Reloading = {} =>
    \A id \in DocIds : documentStore[id].present = durable[id].present

\* --------------------------------------------------------------- retrieval
\* A JavaScript number is modelled as the exact fraction n / d with d > 0;
\* the vectors explored have whole-number norms, so that Math.sqrt is exact.
Number(n, d) == [n |-> n, d |-> d]

\* a.score - b.score > 0
greater(a, b) == a.n * b.d > b.n * a.d

\* Math.sqrt of a perfect square
sqrt(x) == CHOOSE r \in 0..x : r * r = x

RECURSIVE sum(_)
sum(numbers) ==
  IF numbers = <<>> THEN 0 ELSE Head(numbers) + sum(Tail(numbers))

\* cosineSimilarity without the test of the norms
cosineSimilarity_unguarded(vecA, vecB) ==
  IF Len(vecA) # Len(vecB) THEN Number(0, 1)
  ELSE Number(sum([i \in 1..Len(vecA) |-> vecA[i] * vecB[i]]),
              sqrt(sum([i \in 1..Len(vecA) |-> vecA[i] * vecA[i]]))
                * sqrt(sum([i \in 1..Len(vecB) |-> vecB[i] * vecB[i]])))

cosineSimilarity(vecA, vecB) ==
  IF Len(vecA) # Len(vecB) THEN Number(0, 1)
  ELSE LET dotProduct == sum([i \in 1..Len(vecA) |-> vecA[i] * vecB[i]])
           normA == sqrt(sum([i \in 1..Len(vecA) |-> vecA[i] * vecA[i]]))
           normB == sqrt(sum([i \in 1..Len(vecB) |-> vecB[i] * vecB[i]]))
       IN  IF normA = 0 \/ normB = 0 THEN Number(0, 1)
           ELSE Number(dotProduct, normA * normB)

\* String.prototype.split(' ')
RECURSIVE split(_)
split(s) ==
  LET at == {i \in 1..Len(s) : s[i] = " "}
  IN  IF at = {} THEN <<s>>
      ELSE LET i == CHOOSE x \in at : \A z \in at : x <= z
           IN  <<SubSeq(s, 1, i - 1)>> \o split(SubSeq(s, i + 1, Len(s)))

\* queryLower.split(' ').filter(word => word.length > 2)
queryWords(query) ==
  LET long(word) == Len(word) > 2
  IN  SelectSeq(split(toLowerCase(query)), long)

\* (contentLower.match(new RegExp(word, 'g')) || []).length, for a word of
\* letters: its occurrences from left to right, none overlapping another
RECURSIVE matches(_, _)
matches(contentLower, word) ==
  IF Len(contentLower) < Len(word) THEN 0
  ELSE IF startsWith(contentLower, word)
       THEN 1 + matches(SubSeq(contentLower, Len(word) + 1, Len(contentLower)),
                        word)
       ELSE matches(Tail(contentLower), word)

\* the score both keyword searches add up over the words of the query
wordScore(doc, words) ==
  sum([i \in 1..Len(words) |-> matches(toLowerCase(doc.content), words[i])])

\* Array.prototype.slice(0, n)
slice(array, n) ==
  SubSeq(array, 1, IF Len(array) < n THEN Len(array) ELSE n)

\* doc.chunks.filter(chunk => queryWords.some(word =>
\*   chunk.text.toLowerCase().includes(word))).slice(0, 3)
relevantChunks(doc, words) ==
  LET mentions(c) ==
        \E i \in 1..Len(words) : includes(toLowerCase(c.text), words[i])
  IN  slice(SelectSeq(doc.chunks, mentions), 3)

\* Array.prototype.sort((a, b) => b.score - a.score), which is stable: an
\* element goes behind those that score no less and were ahead of it
RECURSIVE sort(_)
sort(results) ==
  IF results = <<>> THEN <<>>
  ELSE LET sorted == sort(SubSeq(results, 1, Len(results) - 1))
           last == results[Len(results)]
           ahead == Cardinality({i \in 1..Len(sorted) :
                                   ~greater(last.score, sorted[i].score)})
       IN  SubSeq(sorted, 1, ahead) \o <<last>>
             \o SubSeq(sorted, ahead + 1, Len(sorted))

\* the concatenation of the arrays of an array
RECURSIVE flat(_)
flat(arrays) ==
  IF arrays = <<>> THEN <<>> ELSE Head(arrays) \o flat(Tail(arrays))

\* chunk.embedding && chunk.embedding.length > 0
embedded(c) == Len(c.embedding) > 0

hasEmbeddedChunks(doc) == \E i \in 1..Len(doc.chunks) : embedded(doc.chunks[i])

hasEmbeddedDocs(store) == \E i \in 1..Len(store) : hasEmbeddedChunks(store[i])

\* the entry of results fallbackKeywordSearch makes of a document, in an
\* array of its own, or the empty array
fallbackResult(doc, words) ==
  IF relevantChunks(doc, words) = <<>> \/ wordScore(doc, words) <= 0 THEN <<>>
  ELSE <<[documentId |-> doc.id,
          score      |-> Number(wordScore(doc, words), 1),
          chunks     |-> [i \in 1..Len(relevantChunks(doc, words)) |->
                            [text  |-> relevantChunks(doc, words)[i].text,
                             score |-> Number(wordScore(doc, words), 1)]]]>>

fallbackKeywordSearch(store, query, k) ==
  slice(sort(flat([i \in 1..Len(store) |->
                     fallbackResult(store[i], queryWords(query))])), k)

\* searchDocumentKeywords, its result in an array of its own, the empty array
\* for null
searchDocumentKeywords(doc, query, docId) ==
  IF wordScore(doc, queryWords(query)) <= 0
       \/ relevantChunks(doc, queryWords(query)) = <<>>
  THEN <<>>
  ELSE <<[documentId |-> docId,
          score      |-> Number(wordScore(doc, queryWords(query)), 10),
          text       |-> Undefined,
          type       |-> "keyword"]>>

\* what the chunks of a document push to embeddedResults: those with
\* similarity > 0.3
embeddedResults(doc, queryEmbedding) ==
  LET similarity(c) == cosineSimilarity(queryEmbedding, c.embedding)
      hit(c) ==
        /\ embedded(c)
        /\ 10 * similarity(c).n > 3 * similarity(c).d
      hits == SelectSeq(doc.chunks, hit)
  IN  [i \in 1..Len(hits) |->
         [documentId |-> doc.id,
          score      |-> cosineSimilarity(queryEmbedding, hits[i].embedding),
          text       |-> hits[i].text,
          type       |-> "semantic"]]

\* what a document pushes to keywordResults
keywordResults(doc, query) ==
  IF hasEmbeddedChunks(doc) THEN <<>>
  ELSE searchDocumentKeywords(doc, query, doc.id)

\* grouped without the limit of 3 chunks per document
grouped_uncapped(groupedResults, result) ==
  LET at == {i \in 1..Len(groupedResults) :
               groupedResults[i].documentId = result.documentId}
      pushed == [text |-> result.text, score |-> result.score]
  IN  IF at = {}
      THEN Append(groupedResults,
                  [documentId |-> result.documentId,
                   score      |-> result.score,
                   chunks     |-> <<pushed>>,
                   searchType |-> result.type])
      ELSE [groupedResults EXCEPT
              ![CHOOSE x \in at : TRUE].chunks = Append(@, pushed)]

\* groupedResults after one more result, its keys in insertion order
grouped(groupedResults, result) ==
  LET at == {i \in 1..Len(groupedResults) :
               groupedResults[i].documentId = result.documentId}
      pushed == [text |-> result.text, score |-> result.score]
  IN  IF at = {}
      THEN Append(groupedResults,
                  [documentId |-> result.documentId,
                   score      |-> result.score,
                   chunks     |-> <<pushed>>,
                   searchType |-> result.type])
      ELSE LET i == CHOOSE x \in at : TRUE
           IN  IF Len(groupedResults[i].chunks) < 3
               THEN [groupedResults EXCEPT ![i].chunks = Append(@, pushed)]
               ELSE groupedResults

\* the loop over allResults
RECURSIVE group(_, _)
group(groupedResults, allResults) ==
  IF allResults = <<>> THEN groupedResults
  ELSE group(grouped(groupedResults, Head(allResults)), Tail(allResults))

\* searchDocuments once the query has its embedding
hybrid(store, query, k, queryEmbedding) ==
  slice(sort(group(<<>>,
     sort(flat([i \in 1..Len(store) |->
                  embeddedResults(store[i], queryEmbedding)])
            \o flat([i \in 1..Len(store) |->
                       keywordResults(store[i], query)])))), k)

\* searchDocuments that goes on to the embedding of the query without looking
\* for a document with embeddings
searchDocuments_alwaysEmbeds(store, query, k, embedQuery) ==
  IF embedQuery.rejected THEN fallbackKeywordSearch(store, query, k)
  ELSE hybrid(store, query, k, embedQuery.value)

\* embedQuery is the outcome of this.embeddings.embedQuery(query)
searchDocuments(store, query, k, embedQuery) ==
  IF ~hasEmbeddedDocs(store) THEN fallbackKeywordSearch(store, query, k)
  ELSE IF embedQuery.rejected THEN fallbackKeywordSearch(store, query, k)
  ELSE hybrid(store, query, k, embedQuery.value)

\* the test for a general query of the keyword-only service
isGeneralQuery(query) ==
  \E phrase \in { <<"w", "h", "a", "t", " ", "i", "s", " ", "i", "n">>,
                  <<"w", "h", "a", "t", " ", "d", "o", "e", "s">>,
                  <<"t", "e", "l", "l", " ", "m", "e", " ", "a", "b", "o", "u", "t">>,
                  <<"c", "o", "n", "t", "e", "n", "t">>,
                  <<"s", "u", "m", "m", "a", "r", "y">>,
                  <<"d", "o", "c", "u", "m", "e", "n", "t">>,
                  <<"i", "n", "f", "o", "r", "m", "a", "t", "i", "o", "n">> } :
    includes(toLowerCase(query), phrase)

\* ------------------------------------------------------ retrieval, inputs
T ==
  [ fee4   |-> <<"f", "e", "e", " ", "f", "e", "e", " ", "f", "e", "e", " ", "f", "e", "e">>,
    FeeDue |-> <<"F", "e", "e", " ", "d", "u", "e">>,
    theFee |-> <<"t", "h", "e", " ", "f", "e", "e">>,
    theMap |-> <<"t", "h", "e", " ", "m", "a", "p">>,
    the    |-> <<"t", "h", "e">>,
    map    |-> <<"m", "a", "p">>,
    abCd   |-> <<"a", "b", " ", "c", "d">> ]




\* content and chunks of the documents explored
Bodies ==
  { [content |-> T.fee4,   chunks |-> <<[text |-> T.fee4, embedding |-> <<>>]>>],
    [content |-> T.FeeDue, chunks |-> <<[text |-> T.FeeDue, embedding |-> <<>>]>>],
    [content |-> T.theFee,
     chunks  |-> <<[text |-> T.theFee, embedding |-> <<5, 12>>]>>],
    [content |-> T.FeeDue,
     chunks  |-> <<[text |-> T.FeeDue, embedding |-> <<1, 0>>]>>],
    [content |-> T.theMap,
     chunks  |-> <<[text |-> T.the, embedding |-> <<3, 4>>],
                   [text |-> T.map, embedding |-> <<>>]>>],
    [content |-> T.theMap,
     chunks  |-> <<[text |-> T.the, embedding |-> <<3, 4>>],
                   [text |-> T.map, embedding |-> <<4, 3>>],
                   [text |-> T.the, embedding |-> <<1, 0>>],
                   [text |-> T.map, embedding |-> <<5, 12>>]>>],
    [content |-> T.abCd,   chunks |-> <<[text |-> T.abCd, embedding |-> <<>>]>>] }

\* the entries of this.documentStore in insertion order, keyed d1, d2, ...
Stores ==
  UNION { { [i \in 1..n |->
               [id      |-> "d" \o ToString(i),
                content |-> bodies[i].content,
                chunks  |-> bodies[i].chunks]] :
            bodies \in [1..n -> Bodies] } : n \in 0..MaxDocs }

\* embedQuery rejects, or resolves with a vector
EmbedQuery ==
  {[rejected |-> TRUE, value |-> <<>>]}
    \cup {[rejected |-> FALSE, value |-> v] : v \in {<<1, 0>>, <<3, 4>>, <<0, 1>>}}

\* the calls of searchDocuments explored: the queries "fee", "Summary",
\* "the FEE" and "is it", with the k of handleDocumentQuery's call and a
\* smaller one
SearchInit ==
  /\ Listening
  /\ Constructed
  /\ search \in
       { [pc |-> "called", store |-> store, query |-> query, k |-> k,
          embedQuery |-> NoSearch.embedQuery, results |-> <<>>] :
           store \in Stores,
           query \in { <<"f", "e", "e">>,
                       <<"S", "u", "m", "m", "a", "r", "y">>,
                       <<"t", "h", "e", " ", "F", "E", "E">>,
                       <<"i", "s", " ", "i", "t">> },
           k \in {1, 2} }
  /\ call = NoCall
  /\ run = NoRun
  /\ cosine = NoCosine
  /\ race = NoRace

\* searchDocuments runs to its return
Searched(embedQuery) ==
  /\ search.pc = "called"
  /\ search' = [search EXCEPT
       !.pc = "returned",
       !.embedQuery = IF hasEmbeddedDocs(search.store) THEN embedQuery ELSE @,
       !.results = searchDocuments(search.store, search.query, search.k,
                                   embedQuery)]
  /\ UNCHANGED <<vars, docVars, call, run, cosine, race>>

SearchNext == \E embedQuery \in EmbedQuery : Searched(embedQuery)

SearchSpec == SearchInit /\ [][SearchNext]_allVars

\* ------------------------------------------------- properties, retrieval
\* C19: searchDocuments returns what fallbackKeywordSearch returns, the same
\* documents in the same order with the same scores, when no document of the
\* store has an embedded chunk, and when one has and the embedding of the
\* query fails.
C19_FallsBackToKeywordSearch ==
  (/\ search.pc = "returned"
   /\ ~hasEmbeddedDocs(search.store) \/ search.embedQuery.rejected) =>
    search.results =
      fallbackKeywordSearch(search.store, search.query, search.k)

\* a document has an embedded chunk, the embedding of the query failed and the
\* search returned two documents
C19_Witness ==
  /\ search.pc = "returned"
  /\ hasEmbeddedDocs(search.store)
  /\ search.embedQuery.rejected
  /\ Len(search.results) = 2

\* C20: in the result of a search that embedded the query, no document scored
\* by keywords stands before a document scored by a similarity above 0.3.
C20_KeywordNeverOutranks ==
  (/\ search.pc = "returned"
   /\ hasEmbeddedDocs(search.store)
   /\ ~search.embedQuery.rejected) =>
    \A i, j \in 1..Len(search.results) :
      (/\ search.results[i].searchType = "keyword"
       /\ search.results[j].searchType = "semantic") => j < i

\* the search took the path that embeds the query
Hybrid == hasEmbeddedDocs(search.store) /\ ~search.embedQuery.rejected

\* the scores of the candidates a document of the store contributes
Candidates(doc) ==
  IF Hybrid
  THEN LET all == embeddedResults(doc, search.embedQuery.value)
                    \o keywordResults(doc, search.query)
       IN  {all[i].score : i \in 1..Len(all)}
  ELSE LET all == fallbackResult(doc, queryWords(search.query))
       IN  {all[i].score : i \in 1..Len(all)}

\* C21: searchDocuments returns at most k entries, no document twice, each
\* entry with at most 3 chunks in non-increasing score order and with the
\* highest score among the candidates of its document, the entries in
\* non-increasing score order.
C21_ResultShape ==
  search.pc = "returned" =>
    LET results == search.results
    IN  /\ Len(results) <= search.k
        /\ \A i, j \in 1..Len(results) :
             /\ i # j => results[i].documentId # results[j].documentId
             /\ i < j => ~greater(results[j].score, results[i].score)
        /\ \A i \in 1..Len(results) :
             /\ Len(results[i].chunks) <= 3
             /\ \A a, b \in 1..Len(results[i].chunks) :
                  a < b => ~greater(results[i].chunks[b].score,
                                    results[i].chunks[a].score)
             /\ \A d \in 1..Len(search.store) :
                  search.store[d].id = results[i].documentId =>
                    /\ results[i].score \in Candidates(search.store[d])
                    /\ \A c \in Candidates(search.store[d]) :
                         ~greater(c, results[i].score)

\* a document with four chunks above the threshold is returned with three,
\* ahead of a document that scores less
C21_Witness ==
  /\ search.pc = "returned"
  /\ Hybrid
  /\ Len(search.results) = 2
  /\ Len(search.results[1].chunks) = 3
  /\ \E d \in 1..Len(search.store) :
       /\ search.store[d].id = search.results[1].documentId
       /\ Cardinality(Candidates(search.store[d])) = 4
  /\ greater(search.results[1].score, search.results[2].score)

\* the documents of the store that have chunks
WithChunks == SelectSeq(search.store, LAMBDA doc : doc.chunks # <<>>)

\* C22: for a general query the search returns each document, up to k, with
\* its first 3 chunks, whether or not a word of the query occurs in it.
C22_GeneralQueryShortCircuits ==
  (search.pc = "returned" /\ isGeneralQuery(search.query)) =>
    /\ Len(search.results) = Len(slice(WithChunks, search.k))
    /\ \A i \in 1..Len(search.results) :
         \E d \in 1..Len(WithChunks) :
           /\ WithChunks[d].id = search.results[i].documentId
           /\ Len(search.results[i].chunks)
                = Len(slice(WithChunks[d].chunks, 3))
           /\ \A c \in 1..Len(search.results[i].chunks) :
                search.results[i].chunks[c].text = WithChunks[d].chunks[c].text

\* ----------------------------------------------- date and time parsing alone
\* the evaluations explored: every weekday name, bare and after 'next ' and
\* 'this ', on each of seven consecutive days, the last of them the last day
\* of a month; and every hour, alone or with minutes, with or without AM/PM
ParseInit ==
  /\ Listening
  /\ Constructed
  /\ search = NoSearch
  /\ run = NoRun
  /\ cosine = NoCosine
  /\ race = NoRace
  /\ call \in
       { [pc |-> "called", fn |-> "parseNaturalDate",
          text |-> prefix \o weekdays[i], today |-> <<2026, 11, d>>,
          ok |-> FALSE, value |-> <<>>] :
           prefix \in {<<>>, KW.next_, KW.this_, <<"N", "e", "x", "t", " ">>},
           i \in 1..7, d \in 24..30 }
       \cup
       { [pc |-> "called", fn |-> "appointment_time", text |-> h \o m \o period,
          today |-> <<>>, ok |-> FALSE, value |-> <<>>] :
           h \in {toString(x) : x \in 0..24} \cup {padStart2(x) : x \in 0..9},
           m \in {<<>>} \cup
                 {<<":">> \o x :
                    x \in {<<"0", "0">>, <<"0", "5">>, <<"3", "0">>,
                           <<"5", "9">>, <<"6", "0">>, <<"5">>}},
           period \in {<<>>, <<" ", "A", "M">>, <<"P", "M">>, <<" ", "p", "m">>,
                       <<"a", "m">>} }

\* parseNaturalDate(text) returns on the day call.today
ParseDate ==
  /\ call.pc = "called" /\ call.fn = "parseNaturalDate"
  /\ call' = [call EXCEPT
       !.pc = "returned",
       !.ok = parseNaturalDate(call.text, call.today).ok,
       !.value = parseNaturalDate(call.text, call.today).date]
  /\ UNCHANGED <<vars, docVars, search, run, cosine, race>>

\* the appointment_time case has computed validTime and finalTimeString
ParseTime ==
  /\ call.pc = "called" /\ call.fn = "appointment_time"
  /\ call' = [call EXCEPT
       !.pc = "returned",
       !.ok = parseTime(call.text).validTime,
       !.value = parseTime(call.text).finalTimeString]
  /\ UNCHANGED <<vars, docVars, search, run, cosine, race>>

ParseNext == ParseDate \/ ParseTime

ParseSpec == ParseInit /\ [][ParseNext]_allVars

\* ---------------------------------------- properties, date and time parsing
\* parseNaturalDate has returned for the text prefix + weekdays[i + 1]
Named(prefix, i) ==
  /\ call.pc = "returned" /\ call.fn = "parseNaturalDate"
  /\ trim(toLowerCase(call.text)) = prefix \o weekdays[i + 1]

\* C23 as stated: a bare weekday name gives the next upcoming occurrence of
\* that weekday with today counting as a match: today's date when today is
\* that weekday, otherwise the date 1 to 6 days ahead.
C23_TodayCounts ==
  \A i \in 0..6 :
     Named(<<>>, i) =>
       /\ call.ok
       /\ call.value = addDays(call.today, (i + 7 - getDay(call.today)) % 7)

\* C23 amended: a bare weekday name gives the next occurrence of that weekday
\* strictly after today: the date 1 to 6 days ahead when today is another
\* weekday, and the date 7 days ahead when today is that weekday.
C23_NextOccurrenceAfterToday ==
  \A i \in 0..6 :
     Named(<<>>, i) =>
       /\ call.ok
       /\ call.value =
            addDays(call.today, ((i + 6 - getDay(call.today)) % 7) + 1)

\* 'monday' on Monday 30 November 2026 is Monday 7 December
C23_Witness ==
  /\ Named(<<>>, 1)
  /\ call.today = <<2026, 11, 30>> /\ getDay(call.today) = 1
  /\ call.value = <<2026, 12, 7>>

\* C24: 'next <weekday>' gives the occurrence of that weekday in the week
\* after the current one, for every current weekday and every named weekday;
\* when today is that weekday the result is 7 days ahead. Stated for the
\* pairs on which weeks starting on Sunday and weeks starting on Monday agree
\* (neither day is a Sunday, or both are).
C24_FollowingWeek ==
  \A i \in 0..6 :
     (Named(KW.next_, i) /\ ((i = 0) <=> (getDay(call.today) = 0))) =>
       /\ call.ok
       /\ call.value = addDays(call.today, 7 - getDay(call.today) + i)

\* HH:MM with HH in 00..23 and MM in 00..59
Canonical(t) ==
  /\ Len(t) = 5 /\ t[3] = ":"
  /\ \A j \in {1, 2, 4, 5} : IsDigit(t[j])
  /\ parseInt(SubSeq(t, 1, 2)) <= 23
  /\ parseInt(SubSeq(t, 4, 5)) <= 59

\* C25: every time the appointment_time case accepts is stored as HH:MM with
\* a two-digit hour 00-23 and a two-digit minute, and 12 AM is stored as
\* 00:00, 12 PM as 12:00 and 5 PM as 17:00.
C25_CanonicalTime ==
  (call.pc = "returned" /\ call.fn = "appointment_time" /\ call.ok) =>
    /\ Canonical(call.value)
    /\ call.text = <<"1", "2", " ", "A", "M">>
         => call.value = <<"0", "0", ":", "0", "0">>
    /\ call.text = <<"1", "2", "P", "M">>
         => call.value = <<"1", "2", ":", "0", "0">>
    /\ call.text = <<"5", "P", "M">>
         => call.value = <<"1", "7", ":", "0", "0">>

\* ------------------------------------------ properties, the booking states
\* C26: in appointment_date a message (without cancellation keyword) is
\* accepted, the date stored and the state advanced to appointment_time,
\* exactly when parseNaturalDate returns a date and that date is not before
\* the current moment; otherwise the state stays appointment_date and the
\* draft's date stays unset.
C26_DateAcceptedIffNotPast ==
  [][(Handled /\ Step = "appointment_date" /\ ~wantsToCancel(Msg)) =>
       IF /\ parseNaturalDate(Msg, now.date).ok
          /\ ~DateBefore(parseNaturalDate(Msg, now.date).date, now)
       THEN SessionSaved =>
              /\ Step1 = "appointment_time"
              /\ Draft1.date = parseNaturalDate(Msg, now.date).date
       ELSE Step1 = "appointment_date" /\ Draft1.date = Undefined]_vars

\* 'tomorrow' sent on 31 December 2026 was stored as 1 January 2027 and the
\* booking waits for the time
C26_Witness ==
  /\ request = M.tomorrow
  /\ stored.found /\ Step = "appointment_time"
  /\ Draft.date = <<2027, 1, 1>> /\ Draft.time = Undefined

\* C27: a turn changes the state of the session only by leaving it as it is,
\* by one step along appointment_name, appointment_email, appointment_phone,
\* appointment_date, appointment_time, appointment_purpose, chat, by going
\* from chat to appointment_name, or from a booking state to chat; and every
\* Appointment saved has its name, email, phone, date and time set.
C27_OneStepAtATime ==
  [][/\ \/ Step1 = Step
        \/ \E i \in 1..5 : Step = StateOrder[i] /\ Step1 = StateOrder[i + 1]
        \/ Step = "chat" /\ Step1 = "appointment_name"
        \/ Step \in FieldSteps \cup {"appointment_purpose"} /\ Step1 = "chat"
     /\ \A n \in 1..Len(appointments') :
          /\ appointments'[n].name # Undefined
          /\ appointments'[n].email # Undefined
          /\ appointments'[n].phone # Undefined
          /\ appointments'[n].appointmentDate[1] # Undefined
          /\ appointments'[n].appointmentTime # Undefined]_vars

\* a booking was carried through all six states and its Appointment saved
\* while the session went from appointment_purpose back to chat
C27_Witness ==
  /\ Len(appointments) = 1
  /\ appointments[1].phone # Undefined /\ appointments[1].appointmentTime # Undefined
  /\ reply.response = R.confirmed
  /\ stored.found /\ Step = "chat" /\ Draft = EmptyDraft

\* ------------------------------- one document of a reload, chunk by chunk
\* the largest number of chunks of a document
MaxChunks == 7

\* const batchSize = 3
batchSize == 3

\* the documents Document.find can return to initializeDocumentStore: up to
\* MaxChunks chunks, each stored with or without a vector; splitText gives
\* the texts of the same chunks
EmbedInit ==
  /\ Listening
  /\ Constructed
  /\ search = NoSearch
  /\ call = NoCall
  /\ cosine = NoCosine
  /\ race = NoRace
  /\ run \in
       UNION { { [pc |-> "called", chunks |-> [c \in 1..n |-> "text_" \o ToString(c - 1)],
                  found |-> embeddings, stored |-> embeddings, inStore |-> <<>>,
                  i |-> 0,
                  issued |-> [c \in 1..n |-> 0], calls |-> [c \in 1..n |-> "none"],
                  processedChunks |-> <<>>] :
                   embeddings \in [1..n -> {Vector, NoEmbedding}] } :
               n \in 0..MaxChunks }

\* chunks.slice(i, Math.min(i + batchSize, chunks.length)), as chunk indices
batch(r, i) == {c \in 0..(Len(r.chunks) - 1) : i <= c /\ c < i + batchSize}

\* batch.map(async ...) of the batch at i: every chunk's embedQuery is called
issue(r, i) ==
  [r EXCEPT
     !.pc = "Promise.all", !.i = i,
     !.issued = [c \in 1..Len(r.chunks) |->
                   IF c - 1 \in batch(r, i) THEN @[c] + 1 ELSE @[c]],
     !.calls = [c \in 1..Len(r.chunks) |->
                  IF c - 1 \in batch(r, i) THEN "pending" ELSE @[c]]]

\* what the async function of chunk c returns once its call has settled
processed(r, c) ==
  [text |-> r.chunks[c + 1],
   embedding |-> IF r.calls[c + 1] = "resolved" THEN Vector ELSE NoEmbedding,
   section |-> c]

\* the results of the batch at i without those of the rejected calls
batchResults_resolvedOnly(r, i) ==
  SelectSeq([b \in 1..Cardinality(batch(r, i)) |-> processed(r, i + b - 1)],
            LAMBDA x : x.embedding # NoEmbedding)

\* the results of the batch at i in the order of its promises
batchResults(r, i) ==
  [b \in 1..Cardinality(batch(r, i)) |-> processed(r, i + b - 1)]

\* the loop of initializeDocumentStore reaches the document: its chunks are
\* used as they are when the first one has a vector, otherwise
\* processDocument is called and awaits splitText
Examine ==
  /\ run.pc = "called"
  /\ run' = IF Len(run.found) = 0 \/ run.found[1] = NoEmbedding
            THEN [run EXCEPT !.pc = "splitText"]
            ELSE [run EXCEPT !.pc = "set", !.inStore = run.found]
  /\ UNCHANGED <<vars, docVars, search, call, cosine, race>>

\* splitText resolves: the first batch is issued, or there is no chunk and
\* processDocument returns []
SplitResolves ==
  /\ run.pc = "splitText"
  /\ run' = IF Len(run.chunks) = 0
            THEN [run EXCEPT !.pc = "findByIdAndUpdate"]
            ELSE issue(run, 0)
  /\ UNCHANGED <<vars, docVars, search, call, cosine, race>>

\* the embedQuery call of chunk c resolves with a vector or rejects
EmbedSettles(c, outcome) ==
  /\ run.pc = "Promise.all"
  /\ run.calls[c + 1] = "pending"
  /\ run' = [run EXCEPT !.calls[c + 1] = outcome]
  /\ UNCHANGED <<vars, docVars, search, call, cosine, race>>

\* the loop going on as soon as one call of the batch has settled
BatchSettled_race ==
  /\ run.pc = "Promise.all"
  /\ \E c \in batch(run, run.i) : run.calls[c + 1] # "pending"
  /\ run' = [run EXCEPT
       !.processedChunks = @ \o batchResults(run, run.i),
       !.pc = IF run.i + batchSize < Len(run.chunks)
              THEN "setTimeout" ELSE "findByIdAndUpdate"]
  /\ UNCHANGED <<vars, docVars, search, call, cosine, race>>

\* Promise.all resolves: the batch's results are pushed; the delay is awaited
\* when chunks remain, otherwise processDocument returns
BatchSettled ==
  /\ run.pc = "Promise.all"
  /\ \A c \in batch(run, run.i) : run.calls[c + 1] # "pending"
  /\ run' = [run EXCEPT
       !.processedChunks = @ \o batchResults(run, run.i),
       !.pc = IF run.i + batchSize < Len(run.chunks)
              THEN "setTimeout" ELSE "findByIdAndUpdate"]
  /\ UNCHANGED <<vars, docVars, search, call, cosine, race>>

\* the delay of 100 ms is over: i += batchSize and the next batch is issued
DelayElapsed ==
  /\ run.pc = "setTimeout"
  /\ run' = issue(run, run.i + batchSize)
  /\ UNCHANGED <<vars, docVars, search, call, cosine, race>>

\* Document.findByIdAndUpdate resolves and the document is set in the store,
\* or it rejects and the catch block ends the reload
Updated(ok) ==
  /\ run.pc = "findByIdAndUpdate"
  /\ run' = IF ok
            THEN [run EXCEPT
                    !.pc = "set",
                    !.stored = [c \in 1..Len(run.processedChunks) |->
                                  run.processedChunks[c].embedding],
                    !.inStore = [c \in 1..Len(run.processedChunks) |->
                                   run.processedChunks[c].embedding]]
            ELSE [run EXCEPT !.pc = "caught"]
  /\ UNCHANGED <<vars, docVars, search, call, cosine, race>>

EmbedNext ==
  \/ Examine
  \/ SplitResolves
  \/ \E c \in 0..(MaxChunks - 1), outcome \in {"resolved", "rejected"} :
        c < Len(run.chunks) /\ EmbedSettles(c, outcome)
  \/ BatchSettled
  \/ DelayElapsed
  \/ \E ok \in BOOLEAN : Updated(ok)

EmbedSpec == EmbedInit /\ [][EmbedNext]_allVars

\* ------------------------------------ properties, one document of a reload
\* the chunks whose embedQuery call is in flight
InFlight == {c \in 0..(Len(run.chunks) - 1) : run.calls[c + 1] = "pending"}

\* C28: when the reload has finished with a document and no embedQuery call
\* was rejected, a document that was read with a chunk lacking a vector has
\* a vector on every chunk, in the store and in durable storage.
C28_ReloadFillsVectors ==
  (/\ run.pc = "set"
   /\ \A c \in 1..Len(run.chunks) : run.calls[c] # "rejected"
   /\ \E c \in 1..Len(run.chunks) : run.found[c] = NoEmbedding) =>
    /\ Len(run.inStore) = Len(run.chunks) /\ Len(run.stored) = Len(run.chunks)
    /\ \A c \in 1..Len(run.chunks) :
         run.inStore[c] = Vector /\ run.stored[c] = Vector

\* C29: processDocument calls embedQuery at most once per chunk at any time
\* and exactly once per chunk when it returns; it returns one processed chunk
\* per input chunk, in the original order, with sections 0, 1, 2, ... and an
\* empty vector exactly on the chunks whose call was rejected; and a rejected
\* call leaves the run awaiting the batch, the other calls as they were.
C29_OneCallPerChunk ==
  /\ [](\A c \in 1..Len(run.chunks) : run.issued[c] <= 1)
  /\ [](run.pc = "findByIdAndUpdate" =>
          /\ \A c \in 1..Len(run.chunks) : run.issued[c] = 1
          /\ Len(run.processedChunks) = Len(run.chunks)
          /\ \A c \in 1..Len(run.chunks) :
               /\ run.processedChunks[c].text = run.chunks[c]
               /\ run.processedChunks[c].section = c - 1
               /\ (run.processedChunks[c].embedding = NoEmbedding)
                    <=> (run.calls[c] = "rejected"))
  /\ [][\A c \in 1..Len(run.chunks) :
          (run.calls[c] = "pending" /\ run'.calls[c] = "rejected") =>
            /\ run'.pc = "Promise.all"
            /\ run'.processedChunks = run.processedChunks
            /\ \A d \in 1..Len(run.chunks) :
                 d # c => run'.calls[d] = run.calls[d]]_allVars

\* processDocument returned seven chunks of which the second and the last
\* have no vector
C29_Witness ==
  /\ run.pc = "findByIdAndUpdate"
  /\ run.calls = <<"resolved", "rejected", "resolved", "resolved", "resolved",
                   "resolved", "rejected">>
  /\ Len(run.processedChunks) = 7
  /\ run.processedChunks[2].embedding = NoEmbedding
  /\ run.processedChunks[3].embedding = Vector

\* C30: at most batchSize embedQuery calls are in flight, and a step that
\* issues calls is taken only when every call issued before it has resolved
\* or been rejected.
C30_BatchesSequential ==
  /\ [](Cardinality(InFlight) <= 3)
  /\ [][(\E c \in 1..Len(run.chunks) : run'.issued[c] > run.issued[c]) =>
          \A d \in 1..Len(run.chunks) :
             run.issued[d] > 0 => run.calls[d] \in {"resolved", "rejected"}]_allVars

\* the three calls of the second batch are in flight after the first batch
\* was pushed
C30_Witness ==
  /\ run.pc = "Promise.all" /\ run.i = 3
  /\ InFlight = {3, 4, 5}
  /\ Len(run.processedChunks) = 3

\* ------------------------------------------- properties, the chat branch
\* C32: a message handled in chat without a booking keyword invokes the chain
\* at most once, and only when searchDocuments returned a document; when the
\* invocation fails the turn returns chat and, its session save succeeding,
\* the apology of handleDocumentQuery, and the persisted session is in chat
\* with the user message and the apology in its log.
C32_ChainInvokedOnce ==
  [][(Handled /\ Step = "chat" /\ ~wantsAppointment(Msg)) =>
       /\ chain'.calls <= 1
       /\ chain'.calls = 1 => chain'.relevantDocs = "some"
       /\ chain'.outcome = "throws" =>
            /\ reply'.currentStep = "chat"
            /\ SessionSaved =>
                 /\ reply'.response = R.queryError
                 /\ stored'.found /\ Step1 = "chat"
                 /\ stored'.doc.messages =
                      <<[role |-> "user", content |-> Msg],
                        [role |-> "assistant", content |-> R.queryError]>>]_vars

\* the chain was invoked once, failed, and the apology was returned and logged
C32_Witness ==
  /\ chain = [relevantDocs |-> "some", calls |-> 1, outcome |-> "throws"]
  /\ reply.response = R.queryError
  /\ stored.found /\ Step = "chat"
  /\ stored.doc.messages[2].content = R.queryError

\* C34: a persisted session in state chat has an empty appointment draft.
C34_ChatMeansEmptyDraft ==
  (stored.found /\ Step = "chat") => Draft = EmptyDraft

\* C35: the state a turn of handleConversation returns is the state of the
\* session in durable storage after the turn, also when loading or saving
\* the session fails.
C35_ReturnedStateIsStored ==
  [][(turns' = turns + 1 /\ reply'.op = "sendMessage" /\ reply'.status = 200)
       => reply'.currentStep = Step1]_vars

\* ------------------------------------------------- cosineSimilarity alone
\* the largest number of components of a vector
MaxDim == 2

\* the largest absolute value of a component
MaxComponent == 4

\* the vectors explored: every vector of up to MaxDim whole components whose
\* norm is a whole number, the zero vectors and the empty vector among them
Vectors ==
  {v \in UNION {[1..n -> -MaxComponent..MaxComponent] : n \in 0..MaxDim} :
     \E r \in 0..(MaxDim * MaxComponent) :
        r * r = sum([i \in 1..Len(v) |-> v[i] * v[i]])}

CosineInit ==
  /\ Listening
  /\ Constructed
  /\ search = NoSearch
  /\ call = NoCall
  /\ run = NoRun
  /\ race = NoRace
  /\ cosine \in {[pc |-> "called", vecA |-> a, vecB |-> b, result |-> <<>>] :
                   a \in Vectors, b \in Vectors}

\* cosineSimilarity(vecA, vecB) returns
Cosine ==
  /\ cosine.pc = "called"
  /\ cosine' = [cosine EXCEPT
       !.pc = "returned",
       !.result = cosineSimilarity(cosine.vecA, cosine.vecB)]
  /\ UNCHANGED <<vars, docVars, search, call, run, race>>

CosineNext == Cosine

CosineSpec == CosineInit /\ [][CosineNext]_allVars

\* ------------------------------------------ properties, cosineSimilarity
\* C33: cosineSimilarity returns 0 when the vectors differ in length or one
\* of them has only zero components (the empty vector included), and the
\* divisor of the quotient it returns is never zero.
C33_ZeroForDegenerateVectors ==
  cosine.pc = "returned" =>
    /\ cosine.result.d # 0
    /\ (\/ Len(cosine.vecA) # Len(cosine.vecB)
        \/ \A i \in 1..Len(cosine.vecA) : cosine.vecA[i] = 0
        \/ \A i \in 1..Len(cosine.vecB) : cosine.vecB[i] = 0)
         => cosine.result = Number(0, 1)

\* a zero vector was compared with a vector of the same length and gave 0
C33_Witness ==
  /\ cosine.pc = "returned"
  /\ cosine.vecA = <<0, 0>> /\ cosine.vecB = <<3, 4>>
  /\ cosine.result = Number(0, 1)

\* ------------------------------------------ properties, returned chunks
\* C36: every chunk of every entry searchDocuments returns has a text, and
\* that text is the text of a chunk of the entry's document in the store,
\* in keyword-fallback mode and in hybrid mode.
C36_ChunksCarryText ==
  search.pc = "returned" =>
    \A i \in 1..Len(search.results) :
       \A c \in 1..Len(search.results[i].chunks) :
          /\ search.results[i].chunks[c].text # Undefined
          /\ \E d \in 1..Len(search.store) :
               /\ search.store[d].id = search.results[i].documentId
               /\ \E x \in 1..Len(search.store[d].chunks) :
                    search.store[d].chunks[x].text
                      = search.results[i].chunks[c].text

\* --------------------------------- properties, dialogue and record agree
\* C38: what the dialogue has accepted into the draft passes the validation
\* of the Appointment record: the email matches the schema's email pattern,
\* the phone the schema's phone pattern, and date and time combine into a
\* valid timestamp; and no purpose turn fails on the record's validation.
C38_DraftPassesSchema ==
  /\ [](/\ Draft.email # Undefined => schemaEmailMatch(Draft.email)
        /\ Draft.phone # Undefined => phoneRegex(Draft.phone)
        /\ (Draft.date # Undefined /\ Draft.time # Undefined)
             => IsoDateTimeValid(Draft.date, Draft.time))
  /\ [][(Handled /\ Step = "appointment_purpose")
          => "appointment: validation failed" \notin errors']_vars

\* ------------------------------------------- properties, store and reload
\* C31: a reload never takes a document out of the store that durable
\* storage holds before and after it, so that no search can find the store
\* without a document that stays in durable storage.
C31_ReloadKeepsDurableDocuments ==
  [][\A id \in DocIds :
       (documentStore[id].present /\ durable[id].present
          /\ durable'[id].present) => documentStore'[id].present]_allVars

\* C37: a step of a background embedding job taken while its document is
\* neither in durable storage nor in the store leaves it in neither: the job
\* does not re-insert a deleted document and does not recreate it.
C37_JobDoesNotResurrect ==
  [][\A j \in 1..Len(jobs) :
       (/\ Len(jobs') = Len(jobs)
        /\ jobs'[j] # jobs[j]
        /\ ~durable[jobs[j].id].present
        /\ ~documentStore[jobs[j].id].present)
       => (/\ ~durable'[jobs[j].id].present
           /\ ~documentStore'[jobs[j].id].present)]_allVars

\* a job has run to its end on a document that a returned deleteDocument
\* removed: the store did not have it when processDocument resolved
C37_Witness ==
  \E j \in 1..Len(jobs), i \in 1..Len(requests) :
    /\ jobs[j].pc = "completed"
    /\ ~jobs[j].updated
    /\ requests[i].op = "deleteDocument"
    /\ requests[i].id = jobs[j].id
    /\ requests[i].pc = "returned"
    /\ ~durable[jobs[j].id].present
    /\ ~documentStore[jobs[j].id].present

\* C40: the status of an enqueued document, 'queued' or 'processing',
\* eventually becomes 'completed' or 'error'.
C40_EnqueuedEventuallySettles ==
  \A id \in DocIds :
    (embeddingQueue[id] \in {"queued", "processing"})
      ~> (embeddingQueue[id] \in {"completed", "error"})

\* a callback whose processDocument failed has left 'error'
C40_Witness ==
  \E j \in 1..Len(jobs) :
    /\ jobs[j].pc = "error"
    /\ jobs[j].chunks = <<>>
    /\ embeddingQueue[jobs[j].id] = "error"

\* ================================================ two overlapping requests
\* Two executions of handleConversation for one session. Each awaits
\* Conversation.findOne, then the branch (with appointment.save() in the
\* purpose case), then conversation.save(); the executions interleave at
\* these awaits. race.session is the Conversation document in durable
\* storage, race.appointments the Appointment documents, race.handlers[h] the
\* execution h: its message, where it stands, the currentStep it loaded, the
\* document it holds and what it returned.

\* the session after the dialogue has answered the messages one by one
RECURSIVE Played(_, _, _)
Played(store, messages, clock) ==
  IF messages = <<>> THEN store
  ELSE Played(handleConversation(store, Trimmed[Head(messages)], clock,
                                 DefaultEnv(TRUE)).store,
              Tail(messages), clock)

\* a request that has reached handleConversation with the message m
Entered(m) ==
  [message |-> Trimmed[m], pc |-> "findOne", loaded |-> "",
   conversation |-> NewConversation,
   result |-> [response |-> <<>>, currentStep |-> ""]]

\* the session waits for the purpose of a booking and two requests arrive
RaceInit ==
  /\ Listening
  /\ Constructed
  /\ search = NoSearch
  /\ call = NoCall
  /\ run = NoRun
  /\ cosine = NoCosine
  /\ race \in
       { [session      |-> Played([found |-> FALSE, doc |-> NewConversation],
                                  <<M.emailOk, M.jo, M.emailOk, M.phone,
                                    M.tomorrow, M.fivePm>>, clock),
          appointments |-> <<>>,
          handlers     |-> <<Entered(m1), Entered(m2)>>] :
         m1 \in {M.jo, M.cancel, M.emailOk},
         m2 \in {M.jo, M.cancel, M.emailOk},
         clock \in Clocks }

\* the execution h goes on to its next await
Resume(h, handler, session, saved) ==
  /\ race' = [race EXCEPT !.handlers[h] = handler,
                          !.session = session,
                          !.appointments = @ \o saved]
  /\ UNCHANGED <<vars, docVars, search, call, run, cosine>>

\* Conversation.findOne resolves and the user entry is pushed
RaceLoads(h) ==
  /\ race.handlers[h].pc = "findOne"
  /\ Resume(h,
            [race.handlers[h] EXCEPT
               !.pc = "branch",
               !.loaded = findOne(race.session).context.currentStep,
               !.conversation =
                  [findOne(race.session) EXCEPT
                     !.messages = push(@, [role |-> "user",
                                           content |-> race.handlers[h].message])]],
            race.session, <<>>)

\* the branch with the response out; the assistant entry is pushed and
\* conversation.save() is pending
Responded(h, out) ==
  Resume(h,
         [race.handlers[h] EXCEPT
            !.pc = "conversation.save",
            !.conversation =
               [@ EXCEPT !.context = out.context,
                         !.messages = push(@, [role |-> "assistant",
                                               content |-> out.response])]],
         race.session, out.saved)

\* the branch runs to its end, appointment.save() included
RaceResponds(h, appointmentStore) ==
  /\ race.handlers[h].pc = "branch"
  /\ Responded(h, Respond(race.handlers[h].conversation,
                          race.handlers[h].message, now,
                          [DefaultEnv(TRUE) EXCEPT
                             !.appointmentStore = appointmentStore]))

\* conversation.save() has resolved or thrown: the execution returns
Returned(h, settled) ==
  Resume(h, [race.handlers[h] EXCEPT !.pc = "returned",
                                     !.result = settled.result],
         settled.store, <<>>)

\* conversation.save() resolves or rejects
RaceSaves(h, conversationStore) ==
  /\ race.handlers[h].pc = "conversation.save"
  /\ Returned(h, Settle(race.session, DefaultEnv(conversationStore),
                        [saved |-> <<>>, errors |-> {},
                         response |->
                           race.handlers[h].conversation.messages[
                             Len(race.handlers[h].conversation.messages)].content],
                        race.handlers[h].conversation,
                        conversationStore
                          /\ ConversationValid(race.handlers[h].conversation)))

RaceNext ==
  \/ \E h \in 1..2 : RaceLoads(h)
  \/ \E h \in 1..2, as \in BOOLEAN : RaceResponds(h, as)
  \/ \E h \in 1..2, cs \in BOOLEAN : RaceSaves(h, cs)

RaceSpec == RaceInit /\ [][RaceNext]_allVars

\* ------------------------------------- properties, two overlapping requests
\* C39: when two requests of one session have both loaded it in
\* appointment_purpose and both have returned with their session saved, at
\* most one Appointment has been created and the session is in chat.
C39_OneAppointmentPerFlow ==
  (\A h \in 1..2 :
      /\ race.handlers[h].pc = "returned"
      /\ race.handlers[h].loaded = "appointment_purpose"
      /\ race.handlers[h].result.response # R.error)
  => /\ Len(race.appointments) <= 1
     /\ findOne(race.session).context.currentStep = "chat"

====
